---- MODULE Spec2Model ----
(***************************************************************************)
(* Model of the scathanna game server (NetServer + ServerState) and of    *)
(* the client replicas (NetClient + ClientState) it keeps in sync.        *)
(*                                                                         *)
(* Conventions                                                             *)
(*   Option<T>      None is <<>>, Some(x) is <<x>>.                        *)
(*   HashMap<K,V>   a function whose DOMAIN is the set of keys.            *)
(*   f32            the value times 2^27, an integer; arithmetic rounds    *)
(*                  to a 24 bit mantissa as the hardware does.             *)
(*   usize indices  sequences are 1-based, so index i here is i-1 there.   *)
(*   Frame          a player's position is not stored; a MovePlayer       *)
(*                  carries what the checks on the position evaluate to.   *)
(*   ivec3          a triple <<x, y, z>>.                                  *)
(*   Arc<Node>      the Node it holds: a handle is the value it had when   *)
(*                  it was cloned (copy on write).                         *)
(*                                                                         *)
(* The second part models the voxel store (Voxels, Node), the editor's    *)
(* VoxelWorld on top of it and the worker of its Bakery.                  *)
(***************************************************************************)
EXTENDS Integers, Sequences, FiniteSets, TLC

\* ------------------------------------------------------------------ bounds
MaxPlayers == 2        \* number of player ids the server hands out
MaxEvents == 2         \* server events handled in Spec
MaxSyncEvents == 1     \* server events handled in SpecSync
MaxGameEvents == 2     \* server events handled in SpecGame
MaxTtlEvents == 2      \* server events other than Tick handled in SpecTtl
MaxPickups == 1        \* pickup points per map
MaxTouch == 1          \* entities a player's bounds contain at once
LOG_CELL_SIZE == 1     \* Voxels::LOG_CELL_SIZE (6 in the source): cells are 2^LOG_CELL_SIZE wide
MaxLogSize == 2        \* octree roots are 2^k wide, k in 1 .. MaxLogSize
MaxCalls == 2          \* calls of set_range and draw on the VoxelWorld in SpecWorld
MaxRequests == 2       \* requests sent to the Bakery in SpecBakery, after those of its start
CS == 3                \* join_tiles CS, the width of the array of build_plane (Voxels::CELL_SIZE, 64, in the source)
LIGHTMAP_SIZE == 8     \* LIGHTMAP_SIZE (512 in the source): the width of a lightmap in texels
MaxIslands == 4        \* faces allocated in SpecAllocator

MaxTicks == 2          \* calls of Skeleton::tick in SpecSkeleton

MaxInputEvents == 6    \* key events and ticks in SpecInput

MaxEffectEvents == 5   \* effects added and ticks in SpecEffects

MaxNetEvents == 6      \* steps of the server, the workers and the client in SpecNetClient

MaxServeEvents == 4    \* events queued on the server's event channel in SpecServe

\* ------------------------------------------------------- program constants
NUM_TEAMS == 3
MARGIN == 2
DEFAULT_INVULN_TTL == 201326592   \* 1.5 * 2^27
TICK_DT == 13421773               \* 0.1f32 * 2^27 (period of spawn_ticker)
DEFAULT_HEALTH == 100

None == << >>
Some(x) == << x >>

IDs == 1 .. MaxPlayers
Red == 0
Blue == 1
Green == 2
JoinTeams == {Red, Blue}
Names == {"anon"}
maplist == << "mapA", "mapB" >>
GameTypes == {"DeadMatch", "TeamMatch"}

\* The spawn points of map m (metadata.spawn_points), named by map and index.
SpawnIndices == {1}
SpawnPoints(m) == { << m, i >> : i \in SpawnIndices }

Hats == {"CowboyHat", "BerserkerHelmet", "PartyHat", "XMasHat"}
EKind(tag, pp) == [tag |-> tag, pickup_point_id |-> pp]
GiftBox(pp) == EKind("GiftBox", pp)
PartyHat == EKind("PartyHat", None)
BerserkerHelmet == EKind("BerserkerHelmet", None)
ALL_POWERUPS == {GiftBox(None)} \cup { EKind(h, None) : h \in Hats }

\* ------------------------------------------------------------ map helpers
EmptyMap == << >>
Insert(f, k, v) == [i \in DOMAIN f \cup {k} |-> IF i = k THEN v ELSE f[i]]
Remove(f, k) == [i \in DOMAIN f \ {k} |-> f[i]]

RECURSIVE SortedSeq(_)
SortedSeq(s) ==
  IF s = {} THEN << >>
  ELSE LET m == CHOOSE x \in s : \A y \in s : x <= y
       IN << m >> \o SortedSeq(s \ {m})

Permutations_(s) == { p \in [1 .. Cardinality(s) -> s] : \A i, j \in 1 .. Cardinality(s) : p[i] = p[j] => i = j }

\* -------------------------------------------------------------- f32 model
Abs(x) == IF x < 0 THEN 0 - x ELSE x

RECURSIVE Ulp(_, _)
\* spacing of the f32 grid at magnitude a (a in units of 2^-27)
Ulp(a, q) == IF a < 16777216 * q THEN q ELSE Ulp(a, 2 * q)

F32Round(x) ==
  LET a == Abs(x)
      q == Ulp(a, 1)
      r == a % q
      lo == a - r
      up == IF 2 * r > q \/ (2 * r = q /\ (lo \div q) % 2 = 1) THEN lo + q ELSE lo
  IN IF x < 0 THEN 0 - up ELSE up

F32Sub(a, b) == F32Round(a - b)

\* --------------------------------------------------------------- messages
Just(id) == [kind |-> "Just", id |-> id]
Not(id) == [kind |-> "Not", id |-> id]
All == [kind |-> "All", id |-> 0]
Envelope(to, msg) == [to |-> to, msg |-> msg]

SwitchMap(map_name, ps, es, player_id) ==
  [type |-> "SwitchMap", map_name |-> map_name, players |-> ps, entities |-> es, player_id |-> player_id]
AddPlayer(p) == [type |-> "AddPlayer", player |-> p]
DropPlayer(id) == [type |-> "DropPlayer", id |-> id]
ForceMovePlayer(pos) == [type |-> "ForceMovePlayer", position |-> pos]
RequestRespawn(sp) == [type |-> "RequestRespawn", spawn_point |-> sp]
MovePlayerMsg(id) == [type |-> "MovePlayer", id |-> id]
UpdatePlayer(p) == [type |-> "UpdatePlayer", player |-> p]
UpdateEntity(e) == [type |-> "UpdateEntity", entity |-> e]
RemoveEntity(eid) == [type |-> "RemoveEntity", eid |-> eid]
AddEffect(effect) == [type |-> "AddEffect", effect |-> effect]
PlaySound(clip) == [type |-> "PlaySound", clip |-> clip]
UpdateHUD(kind, text) == [type |-> "UpdateHUD", kind |-> kind, text |-> text]

\* ---------------------------------------------------------------- cuboid
ivec3(x, y, z) == << x, y, z >>
ZERO == ivec3(0, 0, 0)
ONES == ivec3(1, 1, 1)
vadd(a, b) == ivec3(a[1] + b[1], a[2] + b[2], a[3] + b[3])
vsub(a, b) == ivec3(a[1] - b[1], a[2] - b[2], a[3] - b[3])
vmul(a, k) == ivec3(a[1] * k, a[2] * k, a[3] * k)
Max2(a, b) == IF a >= b THEN a ELSE b
Min2(a, b) == IF a <= b THEN a ELSE b

Cuboid(min, max) == [min |-> min, max |-> max]
cube(min, size) == Cuboid(min, vadd(min, ivec3(size, size, size)))
translate(r, delta) == Cuboid(vadd(r.min, delta), vadd(r.max, delta))
intersect(r, rhs) ==
  Cuboid(ivec3(Max2(r.min[1], rhs.min[1]), Max2(r.min[2], rhs.min[2]), Max2(r.min[3], rhs.min[3])),
         ivec3(Min2(r.max[1], rhs.max[1]), Min2(r.max[2], rhs.max[2]), Min2(r.max[3], rhs.max[3])))
is_empty(r) == r.min[1] >= r.max[1] \/ r.min[2] >= r.max[2] \/ r.min[3] >= r.max[3]
contains(r, idx) == \A k \in 1 .. 3 : idx[k] >= r.min[k] /\ idx[k] < r.max[k]

\* the positions Cuboid::iter_by(step) visits
iter_by(r, step) ==
  { ivec3(x, y, z) : x \in { i \in r.min[1] .. r.max[1] - 1 : (i - r.min[1]) % step = 0 },
                     y \in { i \in r.min[2] .. r.max[2] - 1 : (i - r.min[2]) % step = 0 },
                     z \in { i \in r.min[3] .. r.max[3] - 1 : (i - r.min[3]) % step = 0 } }

\* a < b in the order in which iter_by visits: z outermost, x innermost
Before(a, b) ==
  \/ a[3] < b[3]
  \/ a[3] = b[3] /\ a[2] < b[2]
  \/ a[3] = b[3] /\ a[2] = b[2] /\ a[1] < b[1]

RECURSIVE InVisitOrder(_)
InVisitOrder(s) ==
  IF s = {} THEN << >>
  ELSE LET m == CHOOSE a \in s : \A b \in s \ {a} : Before(a, b)
       IN << m >> \o InVisitOrder(s \ {m})

\* ------------------------------------------------------------------ octree
EMPTY == 0
VoxelTypes == {0, 1}

Uniform(v) == [kind |-> "Uniform", v |-> v, ch |-> << >>]
Composite(ch) == [kind |-> "Composite", v |-> 0, ch |-> ch]
CubeUniform(v) == [mixed |-> FALSE, v |-> v]
Mixed == [mixed |-> TRUE, v |-> 0]

CHILD_POS == << ivec3(0, 0, 0), ivec3(1, 0, 0), ivec3(0, 1, 0), ivec3(1, 1, 0),
                ivec3(0, 0, 1), ivec3(1, 0, 1), ivec3(0, 1, 1), ivec3(1, 1, 1) >>

ensure_composite(self) ==
  IF self.kind = "Composite" THEN self.ch ELSE [i \in 1 .. 8 |-> Uniform(self.v)]

\* Node::set_range without its last step: the children are never merged
RECURSIVE Node_set_range_unsimplified(_, _, _, _)
Node_set_range_unsimplified(self, self_size, range, value) ==
  LET self_range == cube(ZERO, self_size)
  IN IF range = self_range THEN Uniform(value)
     ELSE LET children == ensure_composite(self)
              child_size == self_size \div 2
          IN Composite([i \in 1 .. 8 |->
               LET child_pos == vadd(self_range.min, vmul(CHILD_POS[i], child_size))
                   intersection == intersect(cube(child_pos, child_size), range)
               IN IF ~is_empty(intersection)
                  THEN Node_set_range_unsimplified(children[i], child_size,
                                                   translate(intersection, vsub(ZERO, child_pos)), value)
                  ELSE children[i]])

RECURSIVE Node_set_range(_, _, _, _)
Node_set_range(self, self_size, range, value) ==
  LET self_range == cube(ZERO, self_size)
  IN IF range = self_range THEN Uniform(value)
     ELSE LET children == ensure_composite(self)
              child_size == self_size \div 2
              written == [i \in 1 .. 8 |->
                LET child_pos == vadd(self_range.min, vmul(CHILD_POS[i], child_size))
                    intersection == intersect(cube(child_pos, child_size), range)
                IN IF ~is_empty(intersection)
                   THEN Node_set_range(children[i], child_size,
                                       translate(intersection, vsub(ZERO, child_pos)), value)
                   ELSE children[i]]
          IN \* simplify
             IF written[1].kind = "Uniform" /\ \A i \in 1 .. 8 : written[i] = Uniform(written[1].v)
             THEN Uniform(written[1].v)
             ELSE Composite(written)

\* a Cube is [position, size]
Cube(position, size) == [position |-> position, size |-> size]

RECURSIVE Node_query_cube(_, _, _)
Node_query_cube(self, self_size, range) ==
  IF self.kind = "Uniform" THEN CubeUniform(self.v)
  ELSE IF range.size = self_size THEN Mixed
  ELSE LET child_size == self_size \div 2
           child_dir == [k \in 1 .. 3 |-> IF (range.position[k] \div child_size) % 2 = 1 THEN 1 ELSE 0]
           child_idx == 4 * child_dir[3] + 2 * child_dir[2] + child_dir[1]
           child_range == Cube(vsub(range.position, vmul(child_dir, child_size)), range.size)
       IN Node_query_cube(self.ch[child_idx + 1], child_size, child_range)

\* ------------------------------------------------------------------ voxels
CELL_SIZE == 2 ^ LOG_CELL_SIZE

\* i & CELL_MASK: the multiple of CELL_SIZE at or below i, also for i < 0
align_down(i) == i - (i % CELL_SIZE)
is_alignedi(i) == align_down(i) = i
align_up(i) == IF is_alignedi(i) THEN i ELSE align_down(i + CELL_SIZE)
\* Vector3::map(align_down) and map(align_up)
valign_down(a) == ivec3(align_down(a[1]), align_down(a[2]), align_down(a[3]))
valign_up(a) == ivec3(align_up(a[1]), align_up(a[2]), align_up(a[3]))

aligned_hull(range) ==
  LET min == valign_down(range.min)
      max == valign_up(range.max)
  IN IF is_empty(range) THEN Cuboid(min, min) ELSE Cuboid(min, max)

\* Voxels.cells is a map from cell position to Node
cell_at(cells, pos) == IF pos \in DOMAIN cells THEN Some(cells[pos]) ELSE None
set_cell(cells, pos, cell) == Insert(cells, pos, cell)

\* Voxels::set_range that writes one voxel too far along x
Voxels_set_range_wide(cells, range, value) ==
  LET wide == Cuboid(range.min, vadd(range.max, ivec3(1, 0, 0)))
      hull == iter_by(aligned_hull(wide), CELL_SIZE)
  IN [cell_pos \in DOMAIN cells \cup hull |->
       IF contains(aligned_hull(wide), cell_pos)
       THEN LET overlap == intersect(wide, cube(cell_pos, CELL_SIZE))
                internal_range == translate(overlap, vsub(ZERO, cell_pos))
                cow == IF cell_pos \in DOMAIN cells THEN cells[cell_pos] ELSE Uniform(EMPTY)
            IN Node_set_range(cow, CELL_SIZE, internal_range, value)
       ELSE cells[cell_pos]]

Voxels_set_range(cells, range, value) ==
  LET hull == iter_by(aligned_hull(range), CELL_SIZE)
  IN [cell_pos \in DOMAIN cells \cup hull |->
       IF contains(aligned_hull(range), cell_pos)
       THEN LET overlap == intersect(range, cube(cell_pos, CELL_SIZE))
                internal_range == translate(overlap, vsub(ZERO, cell_pos))
                cow == IF cell_pos \in DOMAIN cells THEN cells[cell_pos] ELSE Uniform(EMPTY)
            IN Node_set_range(cow, CELL_SIZE, internal_range, value)
       ELSE cells[cell_pos]]

Voxels_query_cube(cells, c) ==
  LET cell_pos == valign_down(c.position)
  IN IF cell_pos \notin DOMAIN cells THEN CubeUniform(EMPTY)
     ELSE Node_query_cube(cells[cell_pos], CELL_SIZE, Cube(vsub(c.position, cell_pos), c.size))

\* -1 stands for the unreachable!() of a Mixed unit cube
at(cells, pos) ==
  LET q == Voxels_query_cube(cells, Cube(pos, 1))
  IN IF q.mixed THEN 0 - 1 ELSE q.v

\* ------------------------------------------------------------------ bakery
UpdateCell(cell_pos, cell) == [type |-> "UpdateCell", pos |-> cell_pos, cell |-> Some(cell)]
RequestVAO(cell_pos) == [type |-> "RequestVAO", pos |-> cell_pos, cell |-> None]
RequestLightmap(cell_pos) == [type |-> "RequestLightmap", pos |-> cell_pos, cell |-> None]

\* A CellBuffer is known by the voxels it was baked from. None for a cell
\* that the voxels do not store.
bake_cell_buffer(cells, cell_pos) ==
  IF cell_at(cells, cell_pos) = None THEN None ELSE Some([baked_from |-> cells])

\* Bakery::new: the worker starts with a copy of the voxels, blocked in recv
Worker(cells) == [voxels |-> cells, vao_backlog |-> {}, lightmap_backlog |-> {}, pc |-> "recv"]

handle_message(W, msg) ==
  CASE msg.type = "UpdateCell" -> [W EXCEPT !.voxels = set_cell(@, msg.pos, msg.cell[1])]
    [] msg.type = "RequestVAO" -> [W EXCEPT !.vao_backlog = @ \cup {msg.pos}]
    [] msg.type = "RequestLightmap" -> [W EXCEPT !.lightmap_backlog = @ \cup {msg.pos}]

backlog_is_empty(W) == W.lightmap_backlog = {} /\ W.vao_backlog = {}

\* A Response is the map from cell position to CellBuffer that its Vec
\* holds. The result: the worker, and the responses it sends.
\* bake_one_fast that prefers the lightmap backlog
bake_one_fast_lightmap_first(W, popped) ==
  IF W.lightmap_backlog # {}
  THEN [worker |-> [W EXCEPT !.lightmap_backlog = @ \ {popped}],
        send |-> IF bake_cell_buffer(W.voxels, popped) = None THEN << >>
                 ELSE << [pos \in {popped} |-> bake_cell_buffer(W.voxels, popped)[1]] >>]
  ELSE [worker |-> [W EXCEPT !.vao_backlog = {}],
        send |-> << [pos \in { q \in W.vao_backlog : bake_cell_buffer(W.voxels, q) # None } |->
                       bake_cell_buffer(W.voxels, pos)[1]] >>]

\* bake_one_fast that drains the lightmap backlog together with the VAO
\* backlog and bakes only the latter
bake_one_fast_forgets_lightmaps(W, popped) ==
  IF W.vao_backlog # {}
  THEN [worker |-> [W EXCEPT !.vao_backlog = {}, !.lightmap_backlog = {}],
        send |-> << [pos \in { q \in W.vao_backlog : bake_cell_buffer(W.voxels, q) # None } |->
                       bake_cell_buffer(W.voxels, pos)[1]] >>]
  ELSE IF W.lightmap_backlog # {}
  THEN [worker |-> [W EXCEPT !.lightmap_backlog = @ \ {popped}],
        send |-> IF bake_cell_buffer(W.voxels, popped) = None THEN << >>
                 ELSE << [pos \in {popped} |-> bake_cell_buffer(W.voxels, popped)[1]] >>]
  ELSE [worker |-> W, send |-> << >>]

\* popped: the element that pop takes from the lightmap backlog, if it takes one
bake_one_fast(W, popped) ==
  IF W.vao_backlog # {}
  THEN [worker |-> [W EXCEPT !.vao_backlog = {}],
        send |-> << [pos \in { q \in W.vao_backlog : bake_cell_buffer(W.voxels, q) # None } |->
                       bake_cell_buffer(W.voxels, pos)[1]] >>]
  ELSE IF W.lightmap_backlog # {}
  THEN [worker |-> [W EXCEPT !.lightmap_backlog = @ \ {popped}],
        send |-> IF bake_cell_buffer(W.voxels, popped) = None THEN << >>
                 ELSE << [pos \in {popped} |-> bake_cell_buffer(W.voxels, popped)[1]] >>]
  ELSE [worker |-> W, send |-> << >>]

\* ------------------------------------------------------------- voxel world
status_of(st, cell_pos) == IF cell_pos \in DOMAIN st THEN st[cell_pos] ELSE "DirtyVAO"

\* the stored cells among the positions of aligned_hull(range).iter_by(CELL_SIZE)
StoredIn(cells, range) == { pos \in DOMAIN cells : contains(aligned_hull(range), pos) }

mark_dirty_vao(st, cells, range) ==
  [pos \in DOMAIN st \cup StoredIn(cells, range) |->
     IF pos \in StoredIn(cells, range) THEN "DirtyVAO" ELSE st[pos]]

\* mark_dirty_lightmap without the test for DirtyVAO
mark_dirty_lightmap_always(st, cells, range) ==
  [pos \in DOMAIN st \cup StoredIn(cells, range) |->
     IF pos \in StoredIn(cells, range) THEN "DirtyLightmap" ELSE st[pos]]

mark_dirty_lightmap(st, cells, range) ==
  LET marked == { pos \in StoredIn(cells, range) : status_of(st, pos) # "DirtyVAO" }
  IN [pos \in DOMAIN st \cup marked |-> IF pos \in marked THEN "DirtyLightmap" ELSE st[pos]]

\* VoxelWorld::set_range: the voxels and the status after it
VoxelWorld_set_range(cells, st, range, value) ==
  LET written == Voxels_set_range(cells, range, value)
      vao == mark_dirty_vao(st, written, Cuboid(vsub(range.min, ONES), vadd(range.max, ONES)))
  IN [voxels |-> written,
      status |-> mark_dirty_lightmap(vao, written,
                   Cuboid(vsub(range.min, vmul(ONES, CELL_SIZE)), vadd(range.max, vmul(ONES, CELL_SIZE))))]

\* camera.position as integers
visible_range(cam_ipos) ==
  LET r == 512
  IN Cuboid(valign_down(vsub(cam_ipos, ivec3(r, r, r))), valign_up(vadd(cam_ipos, ivec3(r, r, r))))

RECURSIVE receive_models(_, _, _)
\* the models and the status once every response of the channel is uploaded
receive_models(mo, st, chan) ==
  IF chan = << >> THEN [models |-> mo, status |-> st]
  ELSE receive_models([pos \in DOMAIN mo \cup DOMAIN Head(chan) |->
                         IF pos \in DOMAIN Head(chan) THEN Head(chan)[pos] ELSE mo[pos]],
                      [pos \in DOMAIN st \cup DOMAIN Head(chan) |->
                         IF pos \in DOMAIN Head(chan) THEN "Clean" ELSE st[pos]],
                      Tail(chan))

RECURSIVE request_each_stays_dirty(_, _, _)
\* request_each that leaves the status of a requested cell as it is
request_each_stays_dirty(cells, st, visit) ==
  IF visit = << >> THEN [sent |-> << >>, status |-> st]
  ELSE LET pos == Head(visit)
           here == status_of(st, pos)
           rest == request_each_stays_dirty(cells, st, Tail(visit))
       IN CASE here = "DirtyVAO" ->
                 [sent |-> << UpdateCell(pos, cells[pos]), RequestVAO(pos) >> \o rest.sent, status |-> rest.status]
            [] here = "DirtyLightmap" ->
                 [sent |-> << RequestLightmap(pos) >> \o rest.sent, status |-> rest.status]
            [] OTHER -> rest

RECURSIVE request_each(_, _, _)
\* the requests sent and the status after visiting the cells of visit in turn
request_each(cells, st, visit) ==
  IF visit = << >> THEN [sent |-> << >>, status |-> st]
  ELSE LET pos == Head(visit)
           here == status_of(st, pos)
           rest == request_each(cells, st, Tail(visit))
       IN CASE here = "DirtyVAO" ->
                 [sent |-> << UpdateCell(pos, cells[pos]), RequestVAO(pos) >> \o rest.sent,
                  status |-> Insert(rest.status, pos, "VAOInflight")]
            [] here = "DirtyLightmap" ->
                 [sent |-> << RequestLightmap(pos) >> \o rest.sent,
                  status |-> Insert(rest.status, pos, "LightmapInflight")]
            [] OTHER -> rest

\* Of the positions of the visible range only the stored cells do anything.
request_models_if_dirty(cells, st, visible) ==
  request_each(cells, st, InVisitOrder({ pos \in DOMAIN cells : contains(visible, pos) }))

\* --------------------------------------------------------------- direction
Directions == { "MinusX", "X", "MinusY", "Y", "MinusZ", "Z" }

Direction_ivec(dir) ==
  CASE dir = "X" -> ivec3(1, 0, 0)
    [] dir = "Y" -> ivec3(0, 1, 0)
    [] dir = "Z" -> ivec3(0, 0, 1)
    [] dir = "MinusX" -> ivec3(0 - 1, 0, 0)
    [] dir = "MinusY" -> ivec3(0, 0 - 1, 0)
    [] dir = "MinusZ" -> ivec3(0, 0, 0 - 1)

\* 0, 1 or 2, as in the source; a vector is indexed from 1
unoriented_axis(dir) ==
  CASE dir \in { "MinusX", "X" } -> 0
    [] dir \in { "MinusY", "Y" } -> 1
    [] dir \in { "MinusZ", "Z" } -> 2

unoriented_vec(dir) == [i \in 1 .. 3 |-> IF i = unoriented_axis(dir) + 1 THEN 1 ELSE 0]

side_index(dir) == IF dir \in { "MinusX", "MinusY", "MinusZ" } THEN 0 ELSE 1

tangents(dir) ==
  CASE dir \in { "MinusX", "X" } -> << "Y", "Z" >>
    [] dir \in { "MinusY", "Y" } -> << "X", "Z" >>
    [] dir \in { "MinusZ", "Z" } -> << "X", "Y" >>

\* Vector3::remove and Vector2::insert
remove(v, axis) ==
  CASE axis = 0 -> << v[2], v[3] >>
    [] axis = 1 -> << v[1], v[3] >>
    [] axis = 2 -> << v[1], v[2] >>

insert(v, axis, value) ==
  CASE axis = 0 -> << value, v[1], v[2] >>
    [] axis = 1 -> << v[1], value, v[2] >>
    [] axis = 2 -> << v[1], v[2], value >>

Rectangle(position, size, direction) == [position |-> position, size |-> size, direction |-> direction]

\* -------------------------------------------------------------- join tiles
Tile(corner, size) == [corner |-> corner, size |-> size]

\* the indices of the CS x CS array of build_plane, as << ix, iy >>
Grid == (0 .. CS - 1) \X (0 .. CS - 1)

\* TileBuffer::push_square of every square: the Tiles of the plane at normal
\* on the side of dir
plane_of(squares, cell_pos, dir, normal) ==
  { Tile(remove(vsub(s.position, cell_pos), unoriented_axis(dir)), s.size[1]) :
      s \in { q \in squares : q.direction = dir /\ vsub(q.position, cell_pos)[unoriented_axis(dir) + 1] = normal } }

rasterize_to_1x1(plane) ==
  [c \in Grid |->
     IF \E t \in plane : /\ t.corner[1] <= c[1] /\ c[1] < t.corner[1] + t.size
                         /\ t.corner[2] <= c[2] /\ c[2] < t.corner[2] + t.size
     THEN << 1, 1 >> ELSE << 0, 0 >>]

RECURSIVE merge_row_unbroken(_, _, _, _)
\* the inner loop of merge_horizontal with a run that goes on across a gap
merge_row_unbroken(t, iy, ix, run_start) ==
  IF ix = CS THEN t
  ELSE IF t[<< ix, iy >>] = << 0, 0 >> THEN merge_row_unbroken(t, iy, ix + 1, run_start)
  ELSE IF run_start = None THEN merge_row_unbroken(t, iy, ix + 1, Some(ix))
  ELSE merge_row_unbroken([t EXCEPT ![<< run_start[1], iy >>] = << @[1] + 1, @[2] >>, ![<< ix, iy >>] = << 0, 0 >>],
                          iy, ix + 1, run_start)

RECURSIVE merge_row(_, _, _, _)
\* the inner loop of merge_horizontal, from column ix on
merge_row(t, iy, ix, run_start) ==
  IF ix = CS THEN t
  ELSE IF t[<< ix, iy >>] = << 0, 0 >> THEN merge_row(t, iy, ix + 1, None)
  ELSE IF run_start = None THEN merge_row(t, iy, ix + 1, Some(ix))
  ELSE merge_row([t EXCEPT ![<< run_start[1], iy >>] = << @[1] + 1, @[2] >>, ![<< ix, iy >>] = << 0, 0 >>],
                 iy, ix + 1, run_start)

RECURSIVE merge_rows(_, _)
merge_rows(t, iy) == IF iy = CS THEN t ELSE merge_rows(merge_row(t, iy, 0, None), iy + 1)

merge_horizontal(t) == merge_rows(t, 0)

\* the inner loop of merge_vertical that finds no two strips of a length
merge_column_never(t, ix, iy, run_start) == t

RECURSIVE merge_column(_, _, _, _)
\* the inner loop of merge_vertical, from row iy on
merge_column(t, ix, iy, run_start) ==
  IF iy = CS THEN t
  ELSE IF t[<< ix, iy >>] = << 0, 0 >> THEN merge_column(t, ix, iy + 1, None)
  ELSE IF run_start = None THEN merge_column(t, ix, iy + 1, Some(iy))
  ELSE IF t[<< ix, iy >>][1] = t[<< ix, run_start[1] >>][1]
       THEN merge_column([t EXCEPT ![<< ix, run_start[1] >>] = << @[1], @[2] + 1 >>, ![<< ix, iy >>] = << 0, 0 >>],
                         ix, iy + 1, run_start)
       ELSE merge_column(t, ix, iy + 1, Some(iy))

RECURSIVE merge_columns(_, _)
merge_columns(t, ix) == IF ix = CS THEN t ELSE merge_columns(merge_column(t, ix, 0, None), ix + 1)

merge_vertical(t) == merge_columns(t, 0)

\* TileBuffer::build_plane: the rectangles of one plane
build_plane(plane, normal_pos, dir, pos_offset) ==
  UNION { { Rectangle(vadd(insert(c, unoriented_axis(dir), normal_pos), pos_offset), size_of_sq_at[c], dir) :
              c \in { g \in Grid : size_of_sq_at[g] # << 0, 0 >> } } :
          size_of_sq_at \in { merge_vertical(merge_horizontal(rasterize_to_1x1(plane))) } }

\* join_squares: a Vec in the source, in the order in which the HashMaps are
\* visited; no two of its rectangles have the same position and direction
join_squares(squares, cell_pos) ==
  UNION { build_plane(plane_of(squares, cell_pos, b[1], b[2]), b[2], b[1], cell_pos) :
            b \in { << s.direction, vsub(s.position, cell_pos)[unoriented_axis(s.direction) + 1] >> : s \in squares } }

\* ------------------------------------------------------- lightmap allocator
uvec2(x, y) == << x, y >>

LightmapAllocator_new(size) == [size |-> size, curr |-> uvec2(1, 1), next_y |-> 1]

\* LightmapAllocator::alloc that starts the next line below the island
\* allocated last
alloc_below_last(A, face_size) ==
  LET size == uvec2(face_size[1] + 1, face_size[2] + 1)
      curr == IF A.curr[1] + size[1] >= A.size THEN uvec2(MARGIN, A.next_y) ELSE A.curr
  IN [allocator |-> [size |-> A.size,
                     curr |-> uvec2(curr[1] + size[1] + MARGIN, curr[2]),
                     next_y |-> curr[2] + size[2] + MARGIN],
      result |-> curr]

\* LightmapAllocator::alloc: the allocator after the call, and the uv returned
alloc(A, face_size) ==
  LET size == uvec2(face_size[1] + 1, face_size[2] + 1)
      curr == IF A.curr[1] + size[1] >= A.size THEN uvec2(MARGIN, A.next_y) ELSE A.curr
  IN [allocator |-> [size |-> A.size,
                     curr |-> uvec2(curr[1] + size[1] + MARGIN, curr[2]),
                     next_y |-> Max2(A.next_y, curr[2] + size[2] + MARGIN)],
      result |-> curr]

RECURSIVE sort_by_key(_, _)
\* faces.sort_by_key(|r| r.size.y), a stable sort: the faces with key k and above, in order
sort_by_key(faces, k) ==
  IF \A i \in 1 .. Len(faces) : faces[i].size[2] < k THEN << >>
  ELSE SelectSeq(faces, LAMBDA r : r.size[2] = k) \o sort_by_key(faces, k + 1)

RECURSIVE alloc_each(_, _)
alloc_each(A, faces) ==
  IF faces = << >> THEN [allocator |-> A, mapped |-> << >>]
  ELSE LET first == alloc(A, Head(faces).size)
           rest == alloc_each(first.allocator, Tail(faces))
       IN [allocator |-> rest.allocator, mapped |-> << << Head(faces), first.result >> >> \o rest.mapped]

\* LightmapAllocator::alloc_all: the allocator after the call, and the faces with their uv
alloc_all(A, faces) == alloc_each(A, sort_by_key(faces, 1))

\* ------------------------------------------------------------ visible faces
RECURSIVE visit_nonempty_cubes_rec(_, _)
\* Node::visit_nonempty_cubes_rec: the cubes f is called with, each with its voxel
visit_nonempty_cubes_rec(self, self_range) ==
  IF self.kind = "Uniform"
  THEN IF self.v # EMPTY THEN { [cube |-> self_range, voxel |-> self.v] } ELSE {}
  ELSE UNION { visit_nonempty_cubes_rec(self.ch[i],
                 Cube(vadd(self_range.position, vmul(CHILD_POS[i], self_range.size \div 2)), self_range.size \div 2)) :
               i \in 1 .. 8 }

\* Node::visit_nonempty_cubes
Node_visit_nonempty_cubes(self, self_pos, self_size) ==
  { [cube |-> Cube(vadd(c.cube.position, self_pos), c.cube.size), voxel |-> c.voxel] :
      c \in visit_nonempty_cubes_rec(self, Cube(ZERO, self_size)) }

\* Voxels::visit_nonempty_cubes
Voxels_visit_nonempty_cubes(cells, cell_pos) ==
  IF cell_at(cells, cell_pos) = None THEN {}
  ELSE Node_visit_nonempty_cubes(cells[cell_pos], cell_pos, CELL_SIZE)

children_on_side(dir) ==
  { insert(v, unoriented_axis(dir), side_index(dir)) : v \in { << 0, 0 >>, << 0, 1 >>, << 1, 0 >>, << 1, 1 >> } }

RECURSIVE visit_faces_rec_all(_, _, _, _)
\* visit_faces_rec that takes every neighbour for empty
visit_faces_rec_all(cells, dir, c, voxel) ==
  { [rect |-> Rectangle(vadd(c.position, vmul(unoriented_vec(dir), side_index(dir) * c.size)),
                        << c.size, c.size >>, dir),
     voxel |-> voxel] }

RECURSIVE visit_faces_rec(_, _, _, _)
\* Voxels::visit_faces_rec: the rectangles f is called with, each with its voxel
visit_faces_rec(cells, dir, c, voxel) ==
  UNION {
    IF neighbour = CubeUniform(EMPTY)
    THEN { [rect |-> Rectangle(vadd(c.position, vmul(unoriented_vec(dir), side_index(dir) * c.size)),
                               << c.size, c.size >>, dir),
            voxel |-> voxel] }
    ELSE IF neighbour = Mixed
    THEN UNION { visit_faces_rec(cells, dir, Cube(vadd(c.position, vmul(delta, c.size \div 2)), c.size \div 2), voxel) :
                   delta \in children_on_side(dir) }
    ELSE {} :
    neighbour \in { Voxels_query_cube(cells, Cube(vadd(c.position, vmul(Direction_ivec(dir), c.size)), c.size)) } }

\* Voxels::visit_faces
visit_faces(cells, cell_pos) ==
  UNION { visit_faces_rec(cells, dir, c.cube, c.voxel) :
            c \in Voxels_visit_nonempty_cubes(cells, cell_pos), dir \in Directions }

\* ------------------------------------------------------------ Skeleton
\* f32 positions, velocities and sizes are fixed-point numbers in thousandths
\* (of a voxel, of a voxel per second), dt is in milliseconds; a product or
\* quotient is rounded to the nearest thousandth
Milli == 1000
Skeleton_G == 48
STAIRCLIMB_SPEED == 15
HSIZE == 3800
VSIZE == 5800

Round(a, d) == (2 * a + d) \div (2 * d)
floor(a) == a \div Milli
ceil(a) == 0 - ((0 - a) \div Milli)

BoundingBox(min, max) == [min |-> min, max |-> max]

\* Voxels::bumps
bumps(cells, bounds) ==
  \E ix \in floor(bounds.min[1]) .. ceil(bounds.max[1]) :
    \E iy \in floor(bounds.min[2]) .. ceil(bounds.max[2]) :
      \E iz \in floor(bounds.min[3]) .. ceil(bounds.max[3]) :
        at(cells, ivec3(ix, iy, iz)) # EMPTY

\* Skeleton::bounds_for
bounds_for(self, pos) ==
  BoundingBox(vsub(pos, ivec3(self.hsize \div 2, 0, self.hsize \div 2)),
              vadd(pos, ivec3(self.hsize \div 2, self.vsize, self.hsize \div 2)))

\* Skeleton::pos_ok
pos_ok(self, world, pos) == ~bumps(world, bounds_for(self, pos))

\* Skeleton::tick_gravity
tick_gravity(self, g, dt) ==
  LET vy == self.velocity[2] - g * dt
      damped(v) == v - Round(v * dt, 20 * Milli)
  IN [self EXCEPT !.velocity = ivec3(damped(self.velocity[1]), damped(vy), damped(self.velocity[3]))]

\* one round of the loop of tick_move; m holds self, xbump and zbump
tick_move_substep(m, world, sub_delta) ==
  LET dx == ivec3(sub_delta[1], 0, 0)
      dy == ivec3(0, sub_delta[2], 0)
      dz == ivec3(0, 0, sub_delta[3])
      okx == pos_ok(m.self, world, vadd(m.self.position, dx))
      px == IF okx THEN vadd(m.self.position, dx) ELSE m.self.position
      oky == pos_ok(m.self, world, vadd(px, dy))
      py == IF oky THEN vadd(px, dy) ELSE px
      okz == pos_ok(m.self, world, vadd(py, dz))
      pz == IF okz THEN vadd(py, dz) ELSE py
  IN [self |-> [m.self EXCEPT !.position = pz,
                              !.velocity = IF oky THEN @ ELSE ivec3(@[1], 0, @[3])],
      xbump |-> m.xbump \/ ~okx,
      zbump |-> m.zbump \/ ~okz]

RECURSIVE tick_move_loop(_, _, _, _)
\* the loop of tick_move, n rounds of it
tick_move_loop(m, world, sub_delta, n) ==
  IF n = 0 THEN m
  ELSE tick_move_loop(tick_move_substep(m, world, sub_delta), world, sub_delta, n - 1)

\* Skeleton::tick_move
tick_move(self, world, dt) ==
  LET delta == [i \in 1 .. 3 |-> Round(self.velocity[i] * dt, Milli)]
      sub_delta == [i \in 1 .. 3 |-> Round(delta[i], 16)]
  IN CHOOSE moved \in
       { IF (m.xbump \/ m.zbump) /\ m.self.velocity[2] >= 0
         THEN IF pos_ok(m.self, world, vadd(m.self.position, ivec3(delta[1], 2100, delta[3])))
              THEN [m.self EXCEPT !.position = vadd(@, ivec3(delta[1], 0, delta[3]))]
              ELSE [m.self EXCEPT !.velocity = ivec3(IF m.xbump THEN 0 ELSE @[1], @[2], IF m.zbump THEN 0 ELSE @[3])]
         ELSE m.self :
         m \in { tick_move_loop([self |-> self, xbump |-> FALSE, zbump |-> FALSE], world, sub_delta, 16) } } : TRUE

\* Skeleton::tick_rescue
tick_rescue(self, world, dt) ==
  IF ~pos_ok(self, world, self.position)
  THEN [self EXCEPT !.position = vadd(@, ivec3(0, STAIRCLIMB_SPEED * dt, 0))]
  ELSE self

\* Skeleton::tick: the skeleton after it and what it pushed to upd
Skeleton_tick(self, world, dt) ==
  LET v1 == self.velocity[2]
      moved == tick_move(tick_gravity(self, Skeleton_G, dt), world, dt)
      v2 == moved.velocity[2]
  IN [self |-> tick_rescue(moved, world, dt),
      upd |-> IF v1 < 0 - Milli /\ v2 = 0
              THEN << [sound |-> "land", position |-> moved.position] >>
              ELSE << >>]

\* ------------------------------------------------------------ ray intersection
\* f64 values are counted in halves: finite ones, the two infinities, and NaN
Fin(v) == [k |-> "fin", v |-> v]
Inf(sign) == [k |-> "inf", v |-> sign]
NaN == [k |-> "nan", v |-> 0]
\* an infinity ranks before or after every finite value that occurs
Rank(a) == IF a.k = "inf" THEN a.v * 1000000 ELSE a.v

\* f64 division of a finite value by a component of an axis unit vector
f64_div(a, d) ==
  IF d # 0 THEN Fin(a * d)
  ELSE IF a > 0 THEN Inf(1) ELSE IF a < 0 THEN Inf(0 - 1) ELSE NaN

f64_lt(a, b) == a.k # "nan" /\ b.k # "nan" /\ Rank(a) < Rank(b)
f64_ge(a, b) == a.k # "nan" /\ b.k # "nan" /\ Rank(a) >= Rank(b)

\* f64::min and f64::max, which return the other value for a NaN
partial_min(a, b) == IF a.k = "nan" THEN b ELSE IF b.k = "nan" THEN a ELSE IF Rank(b) < Rank(a) THEN b ELSE a
partial_max(a, b) == IF a.k = "nan" THEN b ELSE IF b.k = "nan" THEN a ELSE IF Rank(b) > Rank(a) THEN b ELSE a

\* `v as i32` of an f64 counted in halves
as_i32(h) == IF h >= 0 THEN h \div 2 ELSE 0 - ((0 - h) \div 2)

DRay(start, dir) == [start |-> start, dir |-> dir]

\* raytrace::frontmost
frontmost(a, b) ==
  IF a = None THEN b
  ELSE IF b = None THEN a
  ELSE IF f64_lt(a[1].t, b[1].t) THEN a ELSE b

\* BoundingBox::intersect, for a box with integer corners
BoundingBox_intersect(min, max, r) ==
  LET tmin == [i \in 1 .. 3 |-> f64_div(2 * min[i] - r.start[i], r.dir[i])]
      tmax == [i \in 1 .. 3 |-> f64_div(2 * max[i] - r.start[i], r.dir[i])]
      ten3 == [i \in 1 .. 3 |-> partial_min(tmin[i], tmax[i])]
      tex3 == [i \in 1 .. 3 |-> partial_max(tmin[i], tmax[i])]
      ten == partial_max(partial_max(ten3[1], ten3[2]), ten3[3])
      tex == partial_min(partial_min(tex3[1], tex3[2]), tex3[3])
  IN IF f64_ge(tex, partial_max(Fin(0), ten)) THEN Some(ten) ELSE None

RECURSIVE Node_intersect(_, _, _)
RECURSIVE Node_intersect_children(_, _, _, _, _)
\* the loop over the children of Node::intersect, from child i on
Node_intersect_children(ch, self_range, ray, i, result) ==
  IF i > 8 THEN result
  ELSE Node_intersect_children(ch, self_range, ray, i + 1,
         frontmost(result,
                   Node_intersect(ch[i],
                                  Cube(vadd(self_range.position, vmul(CHILD_POS[i], self_range.size \div 2)),
                                       self_range.size \div 2),
                                  ray)))

\* Node::intersect
Node_intersect(self, self_range, ray) ==
  LET min == self_range.position
      max == vadd(self_range.position, ivec3(self_range.size, self_range.size, self_range.size))
      hit == BoundingBox_intersect(min, max, ray)
  IN IF self = Uniform(EMPTY) THEN None
     ELSE IF hit = None THEN None
     ELSE IF self.kind = "Uniform" THEN Some([voxel |-> self.v, t |-> hit[1]])
     ELSE Node_intersect_children(self.ch, self_range, ray, 1, None)

\* the cells Voxels::intersect looks at, in its order
IntersectCells(cell_pos) ==
  [n \in 1 .. 125 |->
     vadd(cell_pos, vmul(ivec3(((n - 1) \div 25) - 2, (((n - 1) \div 5) % 5) - 2, ((n - 1) % 5) - 2), CELL_SIZE))]

RECURSIVE Voxels_intersect_cells(_, _, _, _, _)
\* the loops of Voxels::intersect over the cells that are stored, from the n-th on
Voxels_intersect_cells(cells, ray, at_cells, n, result) ==
  IF n > Len(at_cells) THEN result
  ELSE Voxels_intersect_cells(cells, ray, at_cells, n + 1,
         frontmost(result, Node_intersect(cells[at_cells[n]], Cube(at_cells[n], CELL_SIZE), ray)))

\* Voxels::intersect
Voxels_intersect(cells, ray) ==
  LET cell_pos == valign_down(ivec3(as_i32(ray.start[1]), as_i32(ray.start[2]), as_i32(ray.start[3])))
      stored == SelectSeq(IntersectCells(cell_pos), LAMBDA c : cell_at(cells, c) # None)
  IN Voxels_intersect_cells(cells, ray, stored, 1, None)

\* ------------------------------------------------------------ wire format
\* MAGIC = 0xff53434154480002 as bincode writes a u64: eight bytes, lowest first
MAGIC == << 2, 0, 72, 84, 65, 67, 83, 255 >>

\* bincode's fixed width integers, for values below 256
u32le(n) == << n, 0, 0, 0 >>
u64le(n) == << n, 0, 0, 0, 0, 0, 0, 0 >>

Take(r, n) == SubSeq(r, 1, n)
Skip(r, n) == SubSeq(r, n + 1, Len(r))

\* what a read gives: a value or an error, and the bytes left in the stream
Read_Ok(v, rest) == [ok |-> TRUE, v |-> v, rest |-> rest]
Read_Err(e, rest) == [ok |-> FALSE, v |-> e, rest |-> rest]
io_error == [error |-> "io error: unexpected end of file"]
invalid_value == [error |-> "invalid value"]

\* the variant numbers of ServerMsg
VARIANT_DropPlayer == 1
VARIANT_SwitchMap == 2

\* bincode::serialize_into for a JoinMsg, its name a sequence of bytes
bincode_serialize_JoinMsg(msg) ==
  u64le(Len(msg.name)) \o msg.name \o << msg.avatar_id >> \o u32le(msg.team)

\* bincode::serialize_into for a ServerMsg: the variant number and the
\* fields; the maps of players and of entities are empty
bincode_serialize_ServerMsg(msg) ==
  IF msg.type = "DropPlayer"
  THEN u32le(VARIANT_DropPlayer) \o u32le(msg.id)
  ELSE u32le(VARIANT_SwitchMap) \o u64le(Len(msg.map_name)) \o msg.map_name \o u64le(0)
       \o u32le(msg.player_id) \o u64le(0)

\* bincode::deserialize_from for a u32 and a u64 that are below 256
read_u32(r) ==
  IF Len(r) < 4 THEN Read_Err(io_error, << >>)
  ELSE IF Take(r, 4) # u32le(r[1]) THEN Read_Err(invalid_value, Skip(r, 4))
  ELSE Read_Ok([n |-> r[1]], Skip(r, 4))
read_u64(r) ==
  IF Len(r) < 8 THEN Read_Err(io_error, << >>)
  ELSE IF Take(r, 8) # u64le(r[1]) THEN Read_Err(invalid_value, Skip(r, 8))
  ELSE Read_Ok([n |-> r[1]], Skip(r, 8))

\* bincode::deserialize_from for the fields of ServerMsg::SwitchMap
bincode_deserialize_SwitchMap(r) ==
  LET len == read_u64(r)
      name == IF Len(len.rest) < len.v.n THEN Read_Err(io_error, << >>)
              ELSE Read_Ok([s |-> Take(len.rest, len.v.n)], Skip(len.rest, len.v.n))
      ps == read_u64(name.rest)
      id == read_u32(ps.rest)
      es == read_u64(id.rest)
  IN IF ~len.ok THEN len
     ELSE IF ~name.ok THEN name
     ELSE IF ~ps.ok THEN ps
     ELSE IF ps.v.n # 0 THEN Read_Err(invalid_value, ps.rest)
     ELSE IF ~id.ok THEN id
     ELSE IF ~es.ok THEN es
     ELSE IF es.v.n # 0 THEN Read_Err(invalid_value, es.rest)
     ELSE Read_Ok(SwitchMap(name.v.s, << >>, << >>, id.v.n), es.rest)

\* bincode::deserialize_from for a ServerMsg
bincode_deserialize_ServerMsg(r) ==
  LET variant == read_u32(r)
      id == read_u32(variant.rest)
  IN IF ~variant.ok THEN variant
     ELSE IF variant.v.n = VARIANT_DropPlayer
     THEN IF id.ok THEN Read_Ok(DropPlayer(id.v.n), id.rest) ELSE id
     ELSE IF variant.v.n = VARIANT_SwitchMap
     THEN bincode_deserialize_SwitchMap(variant.rest)
     ELSE Read_Err(invalid_value, variant.rest)

\* wireformat::serialize_into, for a payload that bincode has written
serialize_into(payload) == MAGIC \o payload

\* deserialize_from that does not look at the magic number
deserialize_from_any_magic(r) ==
  IF Len(r) < 8 THEN Read_Err(io_error, << >>)
  ELSE bincode_deserialize_ServerMsg(Skip(r, 8))

\* wireformat::deserialize_from, for a ServerMsg
deserialize_from(r) ==
  IF Len(r) < 8 THEN Read_Err(io_error, << >>)
  ELSE IF Take(r, 8) # MAGIC
  THEN Read_Err([error |-> "server-client version mismatch", want |-> MAGIC, got |-> Take(r, 8)], Skip(r, 8))
  ELSE bincode_deserialize_ServerMsg(Skip(r, 8))

\* NetClient::connect_with_result, from its read of the server's answer on,
\* on the bytes of the stream
connect_from_stream(r) ==
  LET accepted_msg == deserialize_from(r)
  IN IF ~accepted_msg.ok THEN accepted_msg
     ELSE IF accepted_msg.v.type = "SwitchMap" THEN accepted_msg
     ELSE Read_Err([error |-> "expected initial server message to be SwitchMap"], accepted_msg.rest)

\* ------------------------------------------------------------ InputState
\* two of the NUM_KEYS keys
Keys == { "Forward", "Jump" }

\* InputState::new
InputState_new ==
  [pressed |-> [k \in Keys |-> FALSE], released |-> [k \in Keys |-> FALSE], down |-> [k \in Keys |-> FALSE],
   mouse_yaw |-> 0, mouse_pitch |-> 0]

\* InputState::record_key
record_key(self, key, pressed) ==
  IF pressed
  THEN [self EXCEPT !.pressed[key] = TRUE, !.down[key] = TRUE]
  ELSE [self EXCEPT !.released[key] = TRUE]

\* InputState::clear
clear(self) ==
  [self EXCEPT !.down = [i \in Keys |-> IF self.released[i] THEN FALSE ELSE self.down[i]],
               !.pressed = [i \in Keys |-> FALSE],
               !.released = [i \in Keys |-> FALSE]]

\* InputState::is_down, is_pressed, is_released
is_down(self, key) == self.down[key]
is_pressed(self, key) == self.pressed[key]
is_released(self, key) == self.released[key]

\* ---------------------------------------------------------------- effects
\* f32 seconds in units of 2^-27, as for the spawn protection
LASERBEAM_TTL == 33554432     \* 0.25
PARTICLES_TTL == 134217728    \* 1.0

Effect(ttl, typ) == [ttl |-> ttl, typ |-> typ]

Effect_simple_line == Effect(LASERBEAM_TTL, "SimpleLine")
Effect_particle_explosion == Effect(PARTICLES_TTL, "ParticleExplosion")

\* Vec::swap_remove(i), with i counted from 1
swap_remove(v, i) ==
  LET last == Len(v)
  IN IF i = last THEN SubSeq(v, 1, last - 1)
     ELSE [SubSeq(v, 1, last - 1) EXCEPT ![i] = v[last]]

\* update_effects_ttl with a fault: i moves on after a removal too
RECURSIVE update_effects_ttl_moves_on(_, _, _)
update_effects_ttl_moves_on(v, i, dt) ==
  IF i > Len(v) THEN v
  ELSE LET aged == [v EXCEPT ![i].ttl = F32Sub(@, dt)]
       IN IF aged[i].ttl <= 0
          THEN update_effects_ttl_moves_on(swap_remove(aged, i), i + 1, dt)
          ELSE update_effects_ttl_moves_on(aged, i + 1, dt)

\* the loop of update_effects_ttl from index i on (counted from 1)
RECURSIVE update_effects_ttl(_, _, _)
update_effects_ttl(v, i, dt) ==
  IF i > Len(v) THEN v
  ELSE LET aged == [v EXCEPT ![i].ttl = F32Sub(@, dt)]
       IN IF aged[i].ttl <= 0
          THEN update_effects_ttl(swap_remove(aged, i), i, dt)
          ELSE update_effects_ttl(aged, i + 1, dt)

tick_effects(v, dt) == update_effects_ttl(v, 1, dt)

\* --------------------------------------------------------------- NetClient
\* A NetClient nc: error, the messages applied to the GLClient, and the
\* NetPipe: recv (the channel from the download worker: its queue, and
\* whether the worker still holds the Sender) and send (the channel to the
\* upload worker: its queue, and whether the worker still holds the Receiver).
Fine(nc) == [nc |-> nc, e |-> None]
Failed(nc, e) == [nc |-> nc, e |-> Some(e)]

\* NetReceiver::try_recv with a fault: a closed channel is reported before
\* what it still holds
NetReceiver_try_recv_closed_first(recv) ==
  IF ~recv.connected
  THEN [result |-> Some([ok |-> FALSE, msg |-> "receiving on a closed channel"]), recv |-> recv]
  ELSE IF recv.queue # << >>
  THEN [result |-> Some([ok |-> TRUE, msg |-> Head(recv.queue)]), recv |-> [recv EXCEPT !.queue = Tail(@)]]
  ELSE [result |-> None, recv |-> recv]

\* Option<Result<T>> of NetReceiver::try_recv, and the receiver afterwards
NetReceiver_try_recv(recv) ==
  IF recv.queue # << >>
  THEN [result |-> Some([ok |-> TRUE, msg |-> Head(recv.queue)]), recv |-> [recv EXCEPT !.queue = Tail(@)]]
  ELSE IF recv.connected THEN [result |-> None, recv |-> recv]
  ELSE [result |-> Some([ok |-> FALSE, msg |-> "receiving on a closed channel"]), recv |-> recv]

NetSender_send(nc, msg) ==
  IF nc.send.connected THEN Fine([nc EXCEPT !.send.queue = Append(@, msg), !.handed = Append(@, msg)])
  ELSE Failed(nc, "netpipe: sending on a closed channel")

\* join_map fails for a map that does not load
RECURSIVE NetClient_apply_messages(_)
NetClient_apply_messages(nc) ==
  LET r == NetReceiver_try_recv(nc.recv)
      nc1 == [nc EXCEPT !.recv = r.recv]
  IN IF r.result = None THEN Fine(nc1)
     ELSE IF ~r.result[1].ok THEN Failed(nc1, r.result[1].msg)
     ELSE IF r.result[1].msg.type = "SwitchMap" /\ ~r.result[1].msg.loads THEN Failed(nc1, "load map")
     ELSE NetClient_apply_messages([nc1 EXCEPT !.applied = Append(@, r.result[1].msg)])

RECURSIVE NetClient_send_updates(_, _)
NetClient_send_updates(nc, diff) ==
  IF diff = << >> THEN Fine(nc)
  ELSE LET r == NetSender_send(nc, Head(diff))
       IN IF r.e # None THEN r ELSE NetClient_send_updates(r.nc, Tail(diff))

\* stdin: the command stdin.try_read() returns, if any
NetClient_handle_stdin(nc, stdin) ==
  IF stdin # None THEN NetClient_send_updates(nc, << [type |-> "Command", cmd |-> stdin[1]] >>)
  ELSE Fine(nc)

\* diff: what gl_client.tick_and_diff() returns
NetClient_tick_with_result(nc, stdin, diff) ==
  LET r1 == NetClient_handle_stdin(nc, stdin)
  IN IF r1.e # None THEN r1
     ELSE LET r2 == NetClient_apply_messages(r1.nc)
          IN IF r2.e # None THEN r2
             ELSE NetClient_send_updates([r2.nc EXCEPT !.nticks = @ + 1], diff)

\* NetClient::tick with a fault: a client that failed tries again
NetClient_tick_tries_again(nc, stdin, diff) ==
  LET result == NetClient_tick_with_result(nc, stdin, diff)
  IN IF result.e # None THEN [result.nc EXCEPT !.error = result.e] ELSE result.nc

NetClient_tick(nc, stdin, diff) ==
  IF nc.error # None THEN nc
  ELSE LET result == NetClient_tick_with_result(nc, stdin, diff)
       IN IF result.e # None THEN [result.nc EXCEPT !.error = result.e] ELSE result.nc

\* ------------------------------------------------------------ Arc<Node>
\* Voxels.cells with its handles made explicit: a cell is the address of an
\* allocation of H, which holds the Node and the number of handles to it.

\* the lowest free address
FreeAddress(H) == CHOOSE a \in 1 .. Cardinality(DOMAIN H) + 1 : a \notin DOMAIN H /\ \A b \in 1 .. a - 1 : b \in DOMAIN H

Arc_new(H, node) ==
  LET a == FreeAddress(H) IN [heap |-> Insert(H, a, [node |-> node, strong |-> 1]), addr |-> a]

Arc_clone(H, a) == [H EXCEPT ![a].strong = @ + 1]

\* drop of a handle: the allocation is freed with its last handle
Arc_drop(H, a) == IF H[a].strong = 1 THEN Remove(H, a) ELSE [H EXCEPT ![a].strong = @ - 1]

\* Arc::make_mut that hands out the shared allocation itself
Arc_make_mut_shared(H, a) == [heap |-> H, addr |-> a]

\* Arc::make_mut: the allocation itself if this is the only handle, else a
\* clone of the Node in a new allocation, which replaces the handle
Arc_make_mut(H, a) ==
  IF H[a].strong = 1 THEN [heap |-> H, addr |-> a]
  ELSE LET fresh == Arc_new(H, H[a].node)
       IN [heap |-> Arc_drop(fresh.heap, a), addr |-> fresh.addr]

\* the body of the loop of Voxels::set_range for the cell at cell_pos
cow_set_cell_range(H, cells, cell_pos, range, value) ==
  LET overlap == intersect(range, cube(cell_pos, CELL_SIZE))
      internal_range == translate(overlap, vsub(ZERO, cell_pos))
      entry == IF cell_pos \in DOMAIN cells THEN [heap |-> H, addr |-> cells[cell_pos]]
               ELSE Arc_new(H, Uniform(EMPTY))
      cow == Arc_make_mut(entry.heap, entry.addr)
  IN [heap |-> [cow.heap EXCEPT ![cow.addr].node = Node_set_range(@, CELL_SIZE, internal_range, value)],
      cells |-> Insert(cells, cell_pos, cow.addr)]

RECURSIVE cow_set_range_each(_, _, _, _, _)
cow_set_range_each(H, cells, visit, range, value) ==
  IF visit = << >> THEN [heap |-> H, cells |-> cells]
  ELSE LET done == cow_set_cell_range(H, cells, Head(visit), range, value)
       IN cow_set_range_each(done.heap, done.cells, Tail(visit), range, value)

\* Voxels::set_range on cells that are handles
cow_set_range(H, cells, range, value) ==
  cow_set_range_each(H, cells, InVisitOrder(iter_by(aligned_hull(range), CELL_SIZE)), range, value)

RECURSIVE clone_each(_, _)
clone_each(H, addrs) ==
  IF addrs = << >> THEN H ELSE clone_each(Arc_clone(H, Head(addrs)), Tail(addrs))

\* Voxels::cow_clone: the same cells, each with one more handle
cow_clone(H, cells) == [heap |-> clone_each(H, [i \in 1 .. Len(InVisitOrder(DOMAIN cells)) |-> cells[InVisitOrder(DOMAIN cells)[i]]]), cells |-> cells]

\* Voxels::set_cell on cells that are handles: the handle that was there is dropped
cow_set_cell(H, cells, pos, cell) ==
  [heap |-> IF pos \in DOMAIN cells THEN Arc_drop(H, cells[pos]) ELSE H, cells |-> Insert(cells, pos, cell)]

\* the Voxels that the handles stand for
Deref(H, cells) == [pos \in DOMAIN cells |-> H[cells[pos]].node]

\* ------------------------------------------------------------------ state
VARIABLES
  next_player_id,   \* ServerState.next_player_id
  curr_map,         \* ServerState.curr_map (index into maplist)
  players,          \* ServerState.world.players
  entities,         \* ServerState.world.entities
  pickup_points,    \* ServerState.world.map.metadata.pickup_points
  score,            \* ServerState.score
  gametype,         \* ServerState.gametype (discriminant)
  team_score,       \* TeamMatch.team_score
  next_entity_id,   \* NEXT_ENTITY_ID
  pending_diffs,    \* ServerState.pending_diffs
  clients,          \* NetServer.clients (keys)
  broken,           \* connections whose upload worker has exited: send fails
  recv_loops,       \* connections whose receive loop still feeds the event channel
  server_panic,     \* the control loop has panicked
  sent,             \* per id: messages handed to the connection by the last event
  pushed,           \* envelopes pushed to pending_diffs by the last event, in order
  last_event,       \* the ServerEvent handled last
  first_msg,        \* per id: the first message ever handed to the connection
  replica,          \* per id: the NetClient's world once it has applied all it was sent
  effects_added,    \* per id: the effects the client added to world.effects since the last event
  nevents           \* number of server events handled

\* the server and its clients
svars == << next_player_id, curr_map, players, entities, pickup_points, score, gametype,
            team_score, next_entity_id, pending_diffs, clients, broken, recv_loops,
            server_panic, sent, pushed, last_event, first_msg, replica, effects_added, nevents >>

VARIABLES
  root,             \* a Node, the root of an octree
  root_size,        \* the self_size its set_range is called with
  units,            \* whether root was written one unit voxel at a time with one value, and where
  voxels,           \* Voxels.cells of the editor (VoxelWorld.voxels)
  flat,             \* a flat array of voxel values that takes the same writes as voxels
  status,           \* VoxelWorld.status
  models,           \* VoxelWorld.models: per cell the CellBuffer that was uploaded last
  to_worker,        \* the channel Bakery.to_worker -> Worker.from_ctrl
  from_worker,      \* the channel Worker.to_ctrl -> Bakery.from_worker
  worker,           \* the Worker: voxels, vao_backlog, lightmap_backlog, and where it is in serve_loop
  responses,        \* every Response the worker has sent, in order
  woke,             \* what to_worker held, and how many responses had been sent, when the worker last woke up
  last_call,        \* the call made last on the VoxelWorld or the Bakery
  ncalls            \* number of calls made on the VoxelWorld or the Bakery

\* the octree and the voxels
ovars == << root, root_size, units, voxels, flat >>

\* the VoxelWorld around the voxels, and its Bakery
bvars == << status, models, to_worker, from_worker, worker, responses, woke, last_call, ncalls >>

\* the voxel store
evars == << ovars, bvars >>

VARIABLES
  heap,             \* the Arc<Node> allocations: per address the Node and the strong count
  arcs,             \* who holds an Arc<Node>: Voxels.cells of the editor and of the worker, UpdateCell in the channel
  tiles,            \* the squares handed to join_squares and the rectangles it returned
  allocator,        \* a LightmapAllocator, and the islands it has handed out
  skeleton,         \* a Skeleton, and the voxels it moves in
  ray,              \* a Ray, the voxels it was shot at and what intersect returned
  wire,             \* the bytes of a framed message, and what deserialize_from made of them
  input_state,      \* an InputState, and the key events since the last clear
  effects,          \* World.effects of a client, and the tick that aged them last
  net_client,       \* a NetClient, its NetPipe with both workers, and the TCP stream
  serve             \* the server's event channel, where serve_loop is, and the connections accepted

\* copy-on-write cells
cvars == << heap, arcs >>

\* face tiles and their lightmap islands
tvars == << tiles >>
lvars == << allocator >>

\* physics
kvars == << skeleton >>
rvars == << ray >>

\* wire format and input
wvars == << wire >>
ivars == << input_state >>
fvars == << effects >>
nvars == << net_client >>
uvars == << serve >>

\* what is not the server and not the voxel store
xvars == << cvars, tvars, lvars, kvars, rvars, wvars, ivars, fvars, nvars, uvars >>

vars == << svars, evars, xvars >>

\* The state as one value: what the handlers read and write.
State ==
  [ next_player_id |-> next_player_id, curr_map |-> curr_map, players |-> players,
    entities |-> entities, pickup_points |-> pickup_points, score |-> score,
    gametype |-> gametype, team_score |-> team_score, next_entity_id |-> next_entity_id,
    pending_diffs |-> pending_diffs, clients |-> clients, broken |-> broken,
    recv_loops |-> recv_loops, server_panic |-> server_panic, sent |-> sent,
    pushed |-> pushed, last_event |-> last_event, first_msg |-> first_msg,
    replica |-> replica, effects_added |-> effects_added ]

\* ============================================================ ServerState
Player_new(id, position, name, avatar_id, team) ==
  [ id |-> id, name |-> name, avatar_id |-> avatar_id, team |-> team,
    health |-> DEFAULT_HEALTH, spawned |-> FALSE, next_spawn_point |-> position,
    powerup |-> None, invulnerability_ttl |-> None ]

Entity_new(eid, kind) == [id |-> eid, kind |-> kind]

\* pending_diffs.push(envelope)
push(S, env) ==
  [S EXCEPT !.pending_diffs = Append(@, env), !.pushed = Append(@, env)]

map_name(S) == maplist[S.curr_map]

score_of(S, player_id) == IF player_id \in DOMAIN S.score THEN S.score[player_id] ELSE 0

ScoreValues(S) == { S.score[i] : i \in DOMAIN S.score }

best_score(S) ==
  IF ScoreValues(S) = {} THEN 0 ELSE CHOOSE x \in ScoreValues(S) : \A y \in ScoreValues(S) : y <= x

worst_score(S) ==
  IF ScoreValues(S) = {} THEN 0 ELSE CHOOSE x \in ScoreValues(S) : \A y \in ScoreValues(S) : x <= y

has_best_score(S, player_id) ==
  score_of(S, player_id) = best_score(S) /\ score_of(S, player_id) # worst_score(S)

has_worst_score(S, player_id) ==
  score_of(S, player_id) = worst_score(S) /\ score_of(S, player_id) # best_score(S)

format_scores_for(S, player_id) ==
  IF S.gametype = "DeadMatch" THEN << score_of(S, player_id) >>
  ELSE << S.team_score[Red + 1], S.team_score[Blue + 1], S.team_score[Green + 1], score_of(S, player_id) >>

RECURSIVE PushScores(_, _)
PushScores(S, ids) ==
  IF ids = << >> THEN S
  ELSE PushScores(push(S, Envelope(Just(Head(ids)), UpdateHUD("Score", format_scores_for(S, Head(ids))))), Tail(ids))

\* One envelope per player; the order among players is the map's iteration
\* order, which no recipient can observe: ascending here.
broadcast_scores_mini(S) == PushScores(S, SortedSeq(DOMAIN S.players))

broadcast_scoreboard(S) == push(S, Envelope(All, UpdateHUD("Message", "scoreboard")))

hud_message(S, player_id, text) == push(S, Envelope(Just(player_id), UpdateHUD("Message", text)))

log(S, text) == push(S, Envelope(All, UpdateHUD("Log", text)))

broadcast_sound(S, clip) == push(S, Envelope(All, PlaySound(clip)))

broadcast_sound_at(S, clip) == broadcast_sound(S, clip)

record_add_effect(S, effect) == push(S, Envelope(All, AddEffect(effect)))

record_add_entity(S, kind) ==
  LET entity == Entity_new(S.next_entity_id, kind)
  IN push([S EXCEPT !.next_entity_id = @ + 1, !.entities = Insert(@, entity.id, entity)],
          Envelope(All, UpdateEntity(entity)))

record_remove_entity(S, eid) ==
  push([S EXCEPT !.entities = Remove(@, eid)], Envelope(All, RemoveEntity(eid)))

record_move_player(S, player_id) ==
  push(S, Envelope(Not(player_id), MovePlayerMsg(player_id)))

\* f(player) is passed as the updated record
record_apply_to_player(S, player_id, p) ==
  push([S EXCEPT !.players[player_id] = p], Envelope(All, UpdatePlayer(p)))

populate_pickup(S, i) ==
  record_add_entity([S EXCEPT !.pickup_points[i].taken = FALSE], GiftBox(Some(i)))

RECURSIVE PopulateEach(_, _)
PopulateEach(S, is) ==
  IF is = << >> THEN S ELSE PopulateEach(populate_pickup(S, Head(is)), Tail(is))

populate_all_pickups(S) == PopulateEach(S, SortedSeq(DOMAIN S.pickup_points))

\* repopulate: the taken pickup points for which the 0.001 chance hits
tick_pickups(S, repopulate) ==
  PopulateEach(S, SortedSeq({ i \in DOMAIN S.pickup_points : S.pickup_points[i].taken /\ i \in repopulate }))

tick_player(p, dt) ==
  IF p.invulnerability_ttl # None
  THEN LET ttl == F32Sub(p.invulnerability_ttl[1], dt)
       IN [p EXCEPT !.invulnerability_ttl = IF ttl > 0 THEN Some(ttl) ELSE None]
  ELSE p

tick_players(S, dt) ==
  [S EXCEPT !.players = [i \in DOMAIN S.players |-> tick_player(S.players[i], dt)]]

handle_tick(S, dt, repopulate) == tick_players(tick_pickups(S, repopulate), dt)

\* drop_hat: outcome of by_chance(hat_drop_chance); spawn_point: outcome of pick_spawn_point
pick_spawn_point(S, i) == << S.curr_map, i >>

kill_player(S, player_id, drop_hat, spawn_point) ==
  LET powerup == S.players[player_id].powerup
      S1 == IF powerup # None /\ (powerup[1].tag = "GiftBox" \/ drop_hat)
            THEN record_add_entity(S, powerup[1]) ELSE S
      S2 == record_apply_to_player(S1, player_id,
              [S1.players[player_id] EXCEPT !.powerup = None, !.spawned = FALSE])
      S3 == record_add_effect(S2, "particle_explosion")
  IN push(S3, Envelope(Just(player_id), RequestRespawn(pick_spawn_point(S3, spawn_point))))

\* try_kill_player with a fault: the invulnerability of the victim is not looked at
try_kill_player_ignores_ttl(S, victim_id, aggressor_id, drop_hat, spawn_point) ==
  IF aggressor_id # None /\ S.gametype = "TeamMatch"
     /\ S.players[aggressor_id[1]].team = S.players[victim_id].team
  THEN [s |-> S, ok |-> FALSE]
  ELSE IF S.players[victim_id].powerup = Some(PartyHat)
  THEN LET S1 == record_add_effect(S, "particle_explosion")
           S2 == record_apply_to_player(S1, victim_id,
                   [S1.players[victim_id] EXCEPT !.powerup = None,
                                                 !.invulnerability_ttl = Some(DEFAULT_INVULN_TTL)])
           S3 == log(S2, "saved by party hat")
       IN [s |-> broadcast_sound_at(S3, "protect"), ok |-> FALSE]
  ELSE [s |-> kill_player(S, victim_id, drop_hat, spawn_point), ok |-> TRUE]

\* try_kill_player with a fault: the party hat protects but is not taken away
try_kill_player_keeps_hat(S, victim_id, aggressor_id, drop_hat, spawn_point) ==
  IF S.players[victim_id].invulnerability_ttl # None
  THEN [s |-> IF aggressor_id # None THEN record_add_effect(S, "ricochet") ELSE S, ok |-> FALSE]
  ELSE IF aggressor_id # None /\ S.gametype = "TeamMatch"
          /\ S.players[aggressor_id[1]].team = S.players[victim_id].team
  THEN [s |-> S, ok |-> FALSE]
  ELSE IF S.players[victim_id].powerup = Some(PartyHat)
  THEN LET S1 == record_add_effect(S, "particle_explosion")
           S2 == record_apply_to_player(S1, victim_id,
                   [S1.players[victim_id] EXCEPT !.invulnerability_ttl = Some(DEFAULT_INVULN_TTL)])
           S3 == log(S2, "saved by party hat")
       IN [s |-> broadcast_sound_at(S3, "protect"), ok |-> FALSE]
  ELSE [s |-> kill_player(S, victim_id, drop_hat, spawn_point), ok |-> TRUE]

\* aggressor_id is an Option<ID>; the result is the new state and the returned bool
try_kill_player(S, victim_id, aggressor_id, drop_hat, spawn_point) ==
  IF S.players[victim_id].invulnerability_ttl # None
  THEN [s |-> IF aggressor_id # None THEN record_add_effect(S, "ricochet") ELSE S, ok |-> FALSE]
  ELSE IF aggressor_id # None /\ S.gametype = "TeamMatch"
          /\ S.players[aggressor_id[1]].team = S.players[victim_id].team
  THEN [s |-> S, ok |-> FALSE]
  ELSE IF S.players[victim_id].powerup = Some(PartyHat)
  THEN LET S1 == record_add_effect(S, "particle_explosion")
           S2 == record_apply_to_player(S1, victim_id,
                   [S1.players[victim_id] EXCEPT !.powerup = None,
                                                 !.invulnerability_ttl = Some(DEFAULT_INVULN_TTL)])
           S3 == log(S2, "saved by party hat")
       IN [s |-> broadcast_sound_at(S3, "protect"), ok |-> FALSE]
  ELSE [s |-> kill_player(S, victim_id, drop_hat, spawn_point), ok |-> TRUE]

increment_score(S, player_id, delta) ==
  LET S1 == [S EXCEPT !.score = Insert(@, player_id, score_of(S, player_id) + delta)]
      team == S1.players[player_id].team
      S2 == IF S1.gametype = "TeamMatch"
            THEN [S1 EXCEPT !.team_score[team + 1] = @ + delta] ELSE S1
  IN broadcast_scores_mini(S2)

\* handle_hit_player with a fault: a victim that waits to respawn is hit again
handle_hit_player_hits_again(S, player_id, victim_id, drop_hat, spawn_point) ==
  IF victim_id \notin DOMAIN S.players THEN S
  ELSE LET r == try_kill_player(S, victim_id, Some(player_id), drop_hat, spawn_point)
       IN IF r.ok
          THEN LET S1 == increment_score(r.s, player_id, 1)
                   S2 == broadcast_sound_at(S1, "kill")
                   S3 == hud_message(S2, victim_id, "You got confettied")
                   S4 == hud_message(S3, player_id, "You confettied")
               IN log(S4, "confetti'd")
          ELSE r.s

\* handle_hit_player with a fault: the kill is credited to the victim
handle_hit_player_credits_victim(S, player_id, victim_id, drop_hat, spawn_point) ==
  IF victim_id \notin DOMAIN S.players THEN S
  ELSE IF ~S.players[victim_id].spawned THEN S
  ELSE LET r == try_kill_player(S, victim_id, Some(player_id), drop_hat, spawn_point)
       IN IF r.ok
          THEN LET S1 == increment_score(r.s, victim_id, 1)
                   S2 == broadcast_sound_at(S1, "kill")
                   S3 == hud_message(S2, victim_id, "You got confettied")
                   S4 == hud_message(S3, player_id, "You confettied")
               IN log(S4, "confetti'd")
          ELSE r.s

handle_hit_player(S, player_id, victim_id, drop_hat, spawn_point) ==
  IF victim_id \notin DOMAIN S.players THEN S
  ELSE IF ~S.players[victim_id].spawned THEN S
  ELSE LET r == try_kill_player(S, victim_id, Some(player_id), drop_hat, spawn_point)
       IN IF r.ok
          THEN LET S1 == increment_score(r.s, player_id, 1)
                   S2 == broadcast_sound_at(S1, "kill")
                   S3 == hud_message(S2, victim_id, "You got confettied")
                   S4 == hud_message(S3, player_id, "You confettied")
               IN log(S4, "confetti'd")
          ELSE r.s

\* handle_ready_to_respawn with a fault: the arms of the match are swapped, so
\* that only the leader is protected
handle_ready_to_respawn_protects_leader(S, player_id) ==
  LET spawn_protect == IF has_best_score(S, player_id) THEN Some(DEFAULT_INVULN_TTL) ELSE None
      S1 == record_apply_to_player(S, player_id,
              [S.players[player_id] EXCEPT !.spawned = TRUE, !.invulnerability_ttl = spawn_protect])
  IN broadcast_sound_at(S1, "respawn")

handle_ready_to_respawn(S, player_id) ==
  LET spawn_protect == IF has_best_score(S, player_id) THEN None ELSE Some(DEFAULT_INVULN_TTL)
      S1 == record_apply_to_player(S, player_id,
              [S.players[player_id] EXCEPT !.spawned = TRUE, !.invulnerability_ttl = spawn_protect])
  IN broadcast_sound_at(S1, "respawn")

\* handle_add_effect with a fault: the effect goes back to its origin too
handle_add_effect_to_all(S, player_id, effect) == push(S, Envelope(All, AddEffect(effect)))

handle_add_effect(S, player_id, effect) == push(S, Envelope(Not(player_id), AddEffect(effect)))

handle_play_sound(S, player_id, clip) == push(S, Envelope(Not(player_id), PlaySound(clip)))

\* handle_drop_player with a fault: the score entry is left behind
handle_drop_player_keeps_score(S, player_id) ==
  IF player_id \notin DOMAIN S.players THEN [S EXCEPT !.server_panic = TRUE]
  ELSE LET S1 == log(S, "left")
       IN push([S1 EXCEPT !.players = Remove(@, player_id)],
               Envelope(Not(player_id), DropPlayer(player_id)))

\* self.player(id) panics when the player is absent ("BUG: player ID not found")
handle_drop_player(S, player_id) ==
  IF player_id \notin DOMAIN S.players THEN [S EXCEPT !.server_panic = TRUE]
  ELSE LET S1 == log(S, "left")
       IN push([S1 EXCEPT !.players = Remove(@, player_id), !.score = Remove(@, player_id)],
               Envelope(Not(player_id), DropPlayer(player_id)))

\* ------------------------------------------------------------------- join
join_new_player(S, join_msg, spawn_point) ==
  LET player_id == S.next_player_id
      player == Player_new(player_id, pick_spawn_point(S, spawn_point), join_msg.name, join_msg.avatar_id, join_msg.team)
      S1 == [S EXCEPT !.next_player_id = @ + 1,
                      !.score = Insert(@, player_id, score_of(S, player_id)),
                      !.players = Insert(@, player_id, player)]
      S2 == push(S1, Envelope(Just(player_id), SwitchMap(map_name(S1), S1.players, S1.entities, player_id)))
      S3 == log(S2, "joined")
      S4 == hud_message(S3, player_id, "Welcome")
      S5 == push(S4, Envelope(Just(player_id), PlaySound("begin")))
      S6 == push(S5, Envelope(All, AddPlayer(player)))
  IN broadcast_scores_mini(S6)

\* ------------------------------------------------------------------- move
\* A frame is [lava, below, touch]: is_on_lava, position.y < WORLD_BOTTOM, and
\* the entities whose centre the player's bounds contain, as << eid, roll >>
\* pairs in the order entity_ids() yields them; roll is the powerup that
\* randomish_powerup_for draws if the entity is a gift box.
RandomishPowerups(S, player_id) ==
  (IF has_best_score(S, player_id) THEN {GiftBox(None)} ELSE {})
  \cup (IF has_worst_score(S, player_id) THEN {BerserkerHelmet} ELSE {})
  \cup { k \in ALL_POWERUPS : S.players[player_id].powerup # Some(k) }

\* pick_up with a fault: the pickup point of a gift box is not marked taken
pick_up_leaves_point(S, player_id, pickup_id, roll) ==
  LET kind == S.entities[pickup_id].kind
      powerup == IF kind.tag = "GiftBox" THEN roll ELSE kind
      S2 == record_remove_entity(S, pickup_id)
      S3 == record_apply_to_player(S2, player_id, [S2.players[player_id] EXCEPT !.powerup = Some(powerup)])
      S4 == broadcast_sound_at(S3, powerup.tag)
      S5 == hud_message(S4, player_id, "You got the powerup")
  IN log(S5, "has the powerup")

pick_up(S, player_id, pickup_id, roll) ==
  LET kind == S.entities[pickup_id].kind
      pp == kind.pickup_point_id
      S1 == IF kind.tag = "GiftBox" /\ pp # None /\ pp[1] \in DOMAIN S.pickup_points
            THEN [S EXCEPT !.pickup_points[pp[1]].taken = TRUE] ELSE S
      powerup == IF kind.tag = "GiftBox" THEN roll ELSE kind
      S2 == record_remove_entity(S1, pickup_id)
      S3 == record_apply_to_player(S2, player_id, [S2.players[player_id] EXCEPT !.powerup = Some(powerup)])
      S4 == broadcast_sound_at(S3, powerup.tag)
      S5 == hud_message(S4, player_id, "You got the powerup")
  IN log(S5, "has the powerup")

RECURSIVE PickUpEach(_, _, _)
PickUpEach(S, player_id, touch) ==
  IF touch = << >> THEN S
  ELSE PickUpEach(pick_up(S, player_id, Head(touch)[1], Head(touch)[2]), player_id, Tail(touch))

\* handle_pickups with a fault: a player that waits to respawn picks up too
handle_pickups_when_dead(S, player_id, touch) == PickUpEach(S, player_id, touch)

handle_pickups(S, player_id, touch) ==
  IF ~S.players[player_id].spawned THEN S ELSE PickUpEach(S, player_id, touch)

handle_lava(S, player_id, frame, drop_hat, spawn_point) ==
  IF ~S.players[player_id].spawned THEN S
  ELSE IF S.players[player_id].powerup = Some(PartyHat) THEN S
  ELSE IF frame.lava
  THEN LET r == try_kill_player(S, player_id, None, drop_hat, spawn_point)
       IN IF r.ok
          THEN LET S1 == increment_score(r.s, player_id, -1)
                   S2 == record_add_effect(S1, "particle_explosion")
                   S3 == broadcast_sound_at(S2, "death_lava")
                   S4 == log(S3, "went swimming in hot lava")
               IN push(S4, Envelope(Just(player_id), UpdateHUD("Message", "You fell in lava")))
          ELSE r.s
  ELSE S

handle_off_world(S, player_id, frame, drop_hat, spawn_point) ==
  IF ~S.players[player_id].spawned THEN S
  ELSE IF frame.below
  THEN LET S1 == kill_player(S, player_id, drop_hat, spawn_point)
           S2 == log(S1, "fell off the world")
       IN hud_message(S2, player_id, "You fell off the world")
  ELSE S

handle_move_player(S, player_id, frame, drop_hat, spawn_point) ==
  LET S1 == record_move_player(S, player_id)
      S2 == handle_lava(S1, player_id, frame, drop_hat, spawn_point)
      S3 == handle_pickups(S2, player_id, frame.touch)
  IN handle_off_world(S3, player_id, frame, drop_hat, spawn_point)

\* --------------------------------------------------------------- commands
\* A command is the sequence of its whitespace-separated words.
EKind_from_str(s) ==
  CASE s = "gift_box" -> Some(GiftBox(None))
    [] s = "cowboy_hat" -> Some(EKind("CowboyHat", None))
    [] s = "berserker_helmet" -> Some(BerserkerHelmet)
    [] s = "party_hat" -> Some(PartyHat)
    [] s = "xmas_hat" -> Some(EKind("XMasHat", None))
    [] OTHER -> None

\* Result<()>: the new state and whether an error was returned
Ok(S) == [s |-> S, err |-> FALSE]
Err(S) == [s |-> S, err |-> TRUE]

one_arg(args) == IF Len(args) = 1 THEN Some(args[1]) ELSE None

summon(S, player_id, arg) ==
  IF EKind_from_str(arg) = None THEN Err(S)
  ELSE Ok(record_add_entity(S, EKind_from_str(arg)[1]))

\* metadata.pickup_points of a freshly loaded map
LoadPickupPoints(m) == [i \in 1 .. MaxPickups |-> [taken |-> FALSE]]

\* the loop of switch_map with a fault: the respawn is requested before the
\* new map is announced
RECURSIVE SwitchEach_respawn_first(_, _, _)
SwitchEach_respawn_first(S, ids, spawn) ==
  IF ids = << >> THEN S
  ELSE LET player_id == Head(ids)
           S1 == record_apply_to_player(S, player_id, [S.players[player_id] EXCEPT !.spawned = FALSE])
           S2 == push(S1, Envelope(Just(player_id), ForceMovePlayer(pick_spawn_point(S1, spawn[player_id]))))
           S3 == push(S2, Envelope(Just(player_id), RequestRespawn(pick_spawn_point(S2, spawn[player_id]))))
           S4 == push(S3, Envelope(Just(player_id), SwitchMap(map_name(S3), S3.players, S3.entities, player_id)))
       IN SwitchEach_respawn_first(S4, Tail(ids), spawn)

RECURSIVE SwitchEach(_, _, _)
SwitchEach(S, ids, spawn) ==
  IF ids = << >> THEN S
  ELSE LET player_id == Head(ids)
           S1 == record_apply_to_player(S, player_id, [S.players[player_id] EXCEPT !.spawned = FALSE])
           S2 == push(S1, Envelope(Just(player_id), SwitchMap(map_name(S1), S1.players, S1.entities, player_id)))
           S3 == push(S2, Envelope(Just(player_id), ForceMovePlayer(pick_spawn_point(S2, spawn[player_id]))))
           S4 == push(S3, Envelope(Just(player_id), RequestRespawn(pick_spawn_point(S3, spawn[player_id]))))
       IN SwitchEach(S4, Tail(ids), spawn)

\* load_ok: World::from_map succeeds; pord: iteration order of player_ids();
\* spawn: the spawn point picked for each player
switch_map(S, arg, load_ok, pord, spawn) ==
  IF \A i \in DOMAIN maplist : maplist[i] # arg THEN Err(S)
  ELSE IF ~load_ok THEN Err(S)
  ELSE LET i == CHOOSE j \in DOMAIN maplist : maplist[j] = arg /\ \A k \in 1 .. j - 1 : maplist[k] # arg
           S1 == [S EXCEPT !.curr_map = i, !.entities = EmptyMap, !.pickup_points = LoadPickupPoints(i)]
           S2 == SwitchEach(S1, SelectSeq(pord, LAMBDA p : p \in DOMAIN S1.players), spawn)
           S3 == broadcast_scoreboard(S2)
           S4 == [S3 EXCEPT !.score = EmptyMap]
       IN Ok(populate_all_pickups(S4))

handle_command_with_result(S, player_id, cmd, load_ok, pord, spawn) ==
  IF Len(cmd) = 0 THEN Ok(S)
  ELSE LET args == Tail(cmd)
       IN CASE cmd[1] = "summon" ->
                 IF one_arg(args) = None THEN Err(S) ELSE summon(S, player_id, one_arg(args)[1])
            [] cmd[1] = "switch" ->
                 IF one_arg(args) = None THEN Err(S)
                 ELSE switch_map(S, one_arg(args)[1], load_ok, pord, spawn)
            [] OTHER -> Err(S)

\* handle_command with a fault: the error is logged on every client's HUD
handle_command_tells_all(S, player_id, cmd, load_ok, pord, spawn) ==
  LET r == handle_command_with_result(S, player_id, cmd, load_ok, pord, spawn)
  IN IF r.err THEN push(r.s, Envelope(All, UpdateHUD("Log", "error"))) ELSE r.s

handle_command(S, player_id, cmd, load_ok, pord, spawn) ==
  LET r == handle_command_with_result(S, player_id, cmd, load_ok, pord, spawn)
  IN IF r.err THEN push(r.s, Envelope(Just(player_id), UpdateHUD("Log", "error"))) ELSE r.s

\* ------------------------------------------------------------ client msgs
\* handle_client_msg with a fault: a message of an absent player is reported
handle_client_msg_reports_absent(S, player_id, msg, rnd) ==
  IF player_id \notin DOMAIN S.players THEN log(S, "unknown player")
  ELSE CASE msg.type = "MovePlayer" -> handle_move_player(S, player_id, msg.frame, rnd.drop_hat, rnd.spawn[player_id])
         [] msg.type = "ReadyToSpawn" -> handle_ready_to_respawn(S, player_id)
         [] msg.type = "AddEffect" -> handle_add_effect(S, player_id, msg.effect)
         [] msg.type = "PlaySound" -> handle_play_sound(S, player_id, msg.clip)
         [] msg.type = "HitPlayer" ->
              handle_hit_player(S, player_id, msg.victim, rnd.drop_hat,
                                rnd.spawn[IF msg.victim \in IDs THEN msg.victim ELSE player_id])
         [] msg.type = "Command" -> handle_command(S, player_id, msg.cmd, rnd.load_ok, rnd.pord, rnd.spawn)

\* rnd gathers the outcomes of the random draws and of the unspecified
\* iteration orders a handler may consult.
handle_client_msg(S, player_id, msg, rnd) ==
  IF player_id \notin DOMAIN S.players THEN S
  ELSE CASE msg.type = "MovePlayer" -> handle_move_player(S, player_id, msg.frame, rnd.drop_hat, rnd.spawn[player_id])
         [] msg.type = "ReadyToSpawn" -> handle_ready_to_respawn(S, player_id)
         [] msg.type = "AddEffect" -> handle_add_effect(S, player_id, msg.effect)
         [] msg.type = "PlaySound" -> handle_play_sound(S, player_id, msg.clip)
         [] msg.type = "HitPlayer" ->
              handle_hit_player(S, player_id, msg.victim, rnd.drop_hat,
                                rnd.spawn[IF msg.victim \in IDs THEN msg.victim ELSE player_id])
         [] msg.type = "Command" -> handle_command(S, player_id, msg.cmd, rnd.load_ok, rnd.pord, rnd.spawn)

\* ============================================================== NetServer
addressees(client_ids, a) ==
  CASE a.kind = "Just" -> << a.id >>
    [] a.kind = "Not" -> SelectSeq(client_ids, LAMBDA i : i # a.id)
    [] a.kind = "All" -> client_ids

RECURSIVE flush_pending_diffs(_, _)
RECURSIVE FlushLoop(_, _, _, _, _)

\* ord: iteration order of the clients map
handle_drop_client(S, player_id, ord) ==
  LET S1 == handle_drop_player([S EXCEPT !.clients = @ \ {player_id}], player_id)
  IN IF S1.server_panic THEN S1 ELSE flush_pending_diffs(S1, ord)

send_to(S, player_id, msg, ord) ==
  IF player_id \in S.clients
  THEN IF player_id \in S.broken
       THEN handle_drop_client(S, player_id, ord)
       ELSE [S EXCEPT !.sent[player_id] = Append(@, msg)]
  ELSE S

\* the two nested loops of flush_pending_diffs: targets are the addressees
\* of Head(diffs) that have not been served yet
FlushLoop(S, ord, client_ids, diffs, targets) ==
  IF S.server_panic \/ diffs = << >> THEN S
  ELSE IF targets = << >>
  THEN IF Tail(diffs) = << >> THEN S
       ELSE FlushLoop(S, ord, client_ids, Tail(diffs), addressees(client_ids, Head(Tail(diffs)).to))
  ELSE FlushLoop(send_to(S, Head(targets), Head(diffs).msg, ord), ord, client_ids, diffs, Tail(targets))

flush_pending_diffs(S, ord) ==
  LET client_ids == SelectSeq(ord, LAMBDA c : c \in S.clients)
      diffs == S.pending_diffs
  IN IF diffs = << >> THEN S
     ELSE FlushLoop([S EXCEPT !.pending_diffs = << >>], ord, client_ids, diffs,
                    addressees(client_ids, Head(diffs).to))

\* ====================================================== NetClient replica
join_map(name, player_id, ps, es) ==
  [map_name |-> name, player_id |-> player_id, players |-> ps, entities |-> es]

\* ClientState::apply_server_msg; effects, sounds and the HUD are not part of
\* the replicated world and leave R unchanged
apply_server_msg(R, msg) ==
  CASE msg.type = "AddPlayer" -> [R EXCEPT !.players = Insert(@, msg.player.id, msg.player)]
    [] msg.type = "UpdatePlayer" ->
         IF msg.player.id \in DOMAIN R.players
         THEN [R EXCEPT !.players[msg.player.id] = msg.player] ELSE R
    [] msg.type = "DropPlayer" -> [R EXCEPT !.players = Remove(@, msg.id)]
    [] msg.type = "UpdateEntity" -> [R EXCEPT !.entities = Insert(@, msg.entity.id, msg.entity)]
    [] msg.type = "RemoveEntity" -> [R EXCEPT !.entities = Remove(@, msg.eid)]
    [] msg.type = "RequestRespawn" ->
         [R EXCEPT !.players[R.player_id].next_spawn_point = msg.spawn_point]
    [] OTHER -> R

\* NetClient::apply_messages: the messages read from the connection, in order,
\* applied to the client's state R; a SwitchMap rebuilds it.
RECURSIVE apply_messages(_, _)
apply_messages(R, msgs) ==
  IF msgs = << >> THEN R
  ELSE apply_messages(
         IF Head(msgs).type = "SwitchMap"
         THEN join_map(Head(msgs).map_name, Head(msgs).player_id, Head(msgs).players, Head(msgs).entities)
         ELSE apply_server_msg(R, Head(msgs)),
         Tail(msgs))

\* NetClient::connect_with_result, then the ticks that read the rest: the
\* result is an Option, None when the first message is not SwitchMap.
connect_with_result(msgs) ==
  IF Head(msgs).type = "SwitchMap"
  THEN Some(apply_messages(join_map(Head(msgs).map_name, Head(msgs).player_id,
                                    Head(msgs).players, Head(msgs).entities), Tail(msgs)))
  ELSE None

\* ================================================================ actions
ClientMsgMove(frame) == [type |-> "MovePlayer", frame |-> frame]
ClientMsgReady == [type |-> "ReadyToSpawn"]
ClientMsgHit(victim) == [type |-> "HitPlayer", victim |-> victim]
ClientMsgCommand(cmd) == [type |-> "Command", cmd |-> cmd]
ClientMsgAddEffect == [type |-> "AddEffect", effect |-> "particle_beam"]
ClientMsgPlaySound == [type |-> "PlaySound", clip |-> "bang"]

Commands ==
  { << >>, << "bogus" >>, << "switch" >>, << "switch", "nowhere" >>, << "summon" >>,
    << "summon", "bogus" >>, << "summon", "party_hat" >>, << "summon", "gift_box" >> }
  \cup { << "switch", maplist[i] >> : i \in DOMAIN maplist }

Rnds ==
  [ drop_hat : BOOLEAN, load_ok : BOOLEAN, pord : Permutations_(IDs), spawn : [IDs -> SpawnIndices] ]

NoRnd == CHOOSE r \in Rnds : ~r.drop_hat /\ r.load_ok /\ r.pord = [i \in IDs |-> i]

\* The frames a client can report in state S: all combinations of the lava and
\* off-world checks with up to MaxTouch touched entities. handle_pickups looks
\* for touched entities only while the player is spawned.
RECURSIVE TouchSeqs(_, _, _, _)
TouchSeqs(S, player_id, eids, n) ==
  IF n = 0 THEN { << >> }
  ELSE { << >> } \cup UNION {
         UNION { { << << e, r >> >> \o t :
                   t \in TouchSeqs(pick_up(S, player_id, e, r), player_id, eids \ {e}, n - 1) } :
                 r \in IF S.entities[e].kind.tag = "GiftBox"
                       THEN RandomishPowerups(S, player_id) ELSE {S.entities[e].kind} } :
         e \in eids }

Frames(S, player_id, rnd) ==
  UNION { { [lava |-> l, below |-> b, touch |-> t] :
              b \in BOOLEAN,
              t \in LET S1 == handle_lava(S, player_id, [lava |-> l], rnd.drop_hat, rnd.spawn[player_id])
                    IN IF S1.players[player_id].spawned
                       THEN TouchSeqs(S1, player_id, DOMAIN S1.entities, MaxTouch)
                       ELSE { << >> } } :
          l \in BOOLEAN }

\* ---------------------------------------------------------- serve_loop
\* An event starts with nothing handed to any connection yet; what is still
\* pending from before was pushed first.
begin_event(S) == [S EXCEPT !.sent = [c \in IDs |-> << >>], !.pushed = S.pending_diffs]

\* ClientState::apply_self_msgs: of its own messages a client applies the
\* effects (and plays the sounds) itself, in the tick that produced them
RECURSIVE apply_self_msgs(_)
apply_self_msgs(msgs) ==
  IF msgs = << >> THEN << >>
  ELSE (IF Head(msgs).type = "AddEffect" THEN << Head(msgs).effect >> ELSE << >>)
       \o apply_self_msgs(Tail(msgs))

\* the effects that apply_server_msg adds to world.effects (handle_add_effect)
RECURSIVE EffectsOf(_)
EffectsOf(msgs) ==
  IF msgs = << >> THEN << >>
  ELSE (IF Head(msgs).type = "AddEffect" THEN << Head(msgs).effect >> ELSE << >>)
       \o EffectsOf(Tail(msgs))

\* Once the handler has returned (or panicked): record the event, and let
\* every connected peer read what was handed to its connection.
end_event(S, ev) ==
  LET world == [c \in IDs |->
                  IF c \notin S.clients \/ c \in S.broken THEN None
                  ELSE IF S.first_msg[c] = None
                  THEN IF S.sent[c] = << >> THEN None ELSE connect_with_result(S.sent[c])
                  ELSE IF S.replica[c] = None THEN None
                  ELSE Some(apply_messages(S.replica[c][1], S.sent[c]))]
  IN [S EXCEPT !.last_event = ev,
               !.first_msg = [c \in IDs |-> IF S.first_msg[c] = None /\ S.sent[c] # << >>
                                             THEN Some(Head(S.sent[c])) ELSE S.first_msg[c]],
               !.replica = world,
               !.effects_added = [c \in IDs |->
                  IF world[c] = None THEN << >>
                  ELSE (IF ev.type = "ClientMessage" /\ ev.id = c
                        THEN apply_self_msgs(<< ev.msg >>) ELSE << >>)
                       \o EffectsOf(S.sent[c])]]

\* ServerEvent::Conn with a JoinMsg that decodes
handle_conn_client(S, join_msg, rnd) ==
  LET player_id == S.next_player_id
      S1 == join_new_player(begin_event(S), join_msg, rnd.spawn[player_id])
      S2 == [S1 EXCEPT !.clients = @ \cup {player_id}, !.recv_loops = @ \cup {player_id}]
  IN end_event(flush_pending_diffs(S2, rnd.pord), [type |-> "Conn", id |-> player_id, msg |-> join_msg])

\* ServerEvent::Drop, the last event the receive loop of player_id sends
on_drop(S, player_id, rnd) ==
  LET S1 == [begin_event(S) EXCEPT !.recv_loops = @ \ {player_id}]
  IN end_event(handle_drop_client(S1, player_id, rnd.pord), [type |-> "Drop", id |-> player_id, msg |-> None])

\* ServerEvent::ClientMessage
on_client_msg(S, player_id, msg, rnd) ==
  end_event(flush_pending_diffs(handle_client_msg(begin_event(S), player_id, msg, rnd), rnd.pord),
            [type |-> "ClientMessage", id |-> player_id, msg |-> msg])

\* ServerEvent::Tick
on_tick(S, repopulate, rnd) ==
  end_event(flush_pending_diffs(handle_tick(begin_event(S), TICK_DT, repopulate), rnd.pord),
            [type |-> "Tick", id |-> 0, msg |-> None])

Assign(S) ==
  /\ next_player_id' = S.next_player_id
  /\ curr_map' = S.curr_map
  /\ players' = S.players
  /\ entities' = S.entities
  /\ pickup_points' = S.pickup_points
  /\ score' = S.score
  /\ gametype' = S.gametype
  /\ team_score' = S.team_score
  /\ next_entity_id' = S.next_entity_id
  /\ pending_diffs' = S.pending_diffs
  /\ clients' = S.clients
  /\ broken' = S.broken
  /\ recv_loops' = S.recv_loops
  /\ server_panic' = S.server_panic
  /\ sent' = S.sent
  /\ pushed' = S.pushed
  /\ last_event' = S.last_event
  /\ first_msg' = S.first_msg
  /\ replica' = S.replica
  /\ effects_added' = S.effects_added
  /\ UNCHANGED << evars, xvars >>

HandleConn(join_msg, rnd) ==
  /\ ~server_panic
  /\ next_player_id <= MaxPlayers
  /\ Assign(handle_conn_client(State, join_msg, rnd))

\* ServerEvent::Conn whose JoinMsg fails to decode: handle_conn_with_result returns Err
HandleConnError ==
  /\ ~server_panic
  /\ Assign(end_event(begin_event(State), [type |-> "Conn", id |-> 0, msg |-> None]))

HandleDrop(player_id, rnd) ==
  /\ ~server_panic
  /\ player_id \in recv_loops
  /\ Assign(on_drop(State, player_id, rnd))

HandleClientMsg(player_id, msg, rnd) ==
  /\ ~server_panic
  /\ player_id \in recv_loops
  /\ Assign(on_client_msg(State, player_id, msg, rnd))

HandleTick(repopulate, rnd) ==
  /\ ~server_panic
  /\ Assign(on_tick(State, repopulate, rnd))

\* The upload worker of c's connection exits (the peer is gone): every later
\* send to c fails, and the peer applies nothing more.
ConnBreak(c) ==
  /\ c \in clients \ broken
  /\ Assign([State EXCEPT !.broken = @ \cup {c}, !.replica[c] = None, !.effects_added[c] = << >>])

\* ServerState::new, before any connection. Nobody is connected yet: the
\* envelopes of populate_all_pickups stay in pending_diffs until the first event.
NewState(game_type) ==
  LET S0 == [ next_player_id |-> 1, curr_map |-> 1, players |-> EmptyMap, entities |-> EmptyMap,
              pickup_points |-> LoadPickupPoints(1), score |-> EmptyMap, gametype |-> game_type,
              team_score |-> [t \in 1 .. NUM_TEAMS |-> 0], next_entity_id |-> 1,
              pending_diffs |-> << >>, clients |-> {}, broken |-> {}, recv_loops |-> {},
              server_panic |-> FALSE, sent |-> [c \in IDs |-> << >>], pushed |-> << >>,
              last_event |-> [type |-> "None", id |-> 0, msg |-> None],
              first_msg |-> [c \in IDs |-> None], replica |-> [c \in IDs |-> None],
              effects_added |-> [c \in IDs |-> << >>] ]
  IN [populate_all_pickups(S0) EXCEPT !.pushed = << >>]

Holds(S) ==
  /\ next_player_id = S.next_player_id
  /\ curr_map = S.curr_map
  /\ players = S.players
  /\ entities = S.entities
  /\ pickup_points = S.pickup_points
  /\ score = S.score
  /\ gametype = S.gametype
  /\ team_score = S.team_score
  /\ next_entity_id = S.next_entity_id
  /\ pending_diffs = S.pending_diffs
  /\ clients = S.clients
  /\ broken = S.broken
  /\ recv_loops = S.recv_loops
  /\ server_panic = S.server_panic
  /\ sent = S.sent
  /\ pushed = S.pushed
  /\ last_event = S.last_event
  /\ first_msg = S.first_msg
  /\ replica = S.replica
  /\ effects_added = S.effects_added

\* no voxel store is in use
NoWorld ==
  /\ status = EmptyMap
  /\ models = EmptyMap
  /\ to_worker = << >>
  /\ from_worker = << >>
  /\ worker = Worker(EmptyMap)
  /\ responses = << >>
  /\ woke = [queue |-> << >>, sent |-> 0]
  /\ last_call = [type |-> "None"]
  /\ ncalls = 0

NoEditor ==
  /\ root = Uniform(EMPTY)
  /\ root_size = 1
  /\ units = [pure |-> FALSE, v |-> EMPTY, at |-> {}]
  /\ voxels = EmptyMap
  /\ flat = EmptyMap
  /\ NoWorld

NoCow == heap = EmptyMap /\ arcs = << >>
NoTiles == tiles = << >>
NoAllocator == allocator = << >>
NoSkeleton == skeleton = << >>
NoRay == ray = << >>
NoWire == wire = << >>
NoInput == input_state = << >>
NoEffects == effects = << >>
NoNetClient == net_client = << >>
NoServe == serve = << >>

NoExtra == NoCow /\ NoTiles /\ NoAllocator /\ NoSkeleton /\ NoRay /\ NoWire /\ NoInput /\ NoEffects /\ NoNetClient /\ NoServe

Init ==
  /\ \E game_type \in GameTypes : Holds(NewState(game_type))
  /\ nevents = 0
  /\ NoEditor
  /\ NoExtra

JoinMsgs == [name : Names, avatar_id : {0}, team : JoinTeams]

ClientMsgs(S, player_id, rnd) ==
  { ClientMsgReady, ClientMsgAddEffect, ClientMsgPlaySound }
  \cup { ClientMsgHit(v) : v \in IDs }
  \cup { ClientMsgCommand(cmd) : cmd \in Commands }
  \cup (IF player_id \in DOMAIN S.players
        THEN { ClientMsgMove(f) : f \in Frames(S, player_id, rnd) }
        ELSE { ClientMsgMove([lava |-> FALSE, below |-> FALSE, touch |-> << >>]) })

\* The draws an event other than a client message can consult in state S: the
\* iteration order of the clients shows only in what a failed send interleaves.
RndsFor(S) ==
  { r \in Rnds : ~r.drop_hat /\ r.load_ok /\ (r.pord # NoRnd.pord => S.broken \cap S.clients # {}) }

\* The draws the handling of msg from player_id can consult in state S; the
\* others are held at a fixed value. The hat drop is drawn for a powerup that
\* is worn or picked up, World::from_map is called for a map of the list, and
\* the iteration order of the players shows in a map switch.
RndsOf(S, player_id, msg) ==
  LET switch == msg.type = "Command" /\ Len(msg.cmd) = 2 /\ msg.cmd[1] = "switch"
                /\ \E i \in DOMAIN maplist : maplist[i] = msg.cmd[2]
      hat == \/ /\ msg.type = "HitPlayer"
                /\ msg.victim \in DOMAIN S.players
                /\ S.players[msg.victim].powerup # None
             \/ /\ msg.type = "MovePlayer"
                /\ player_id \in DOMAIN S.players
                /\ (S.players[player_id].powerup # None \/ msg.frame.touch # << >>)
      order == S.broken \cap S.clients # {}
  IN { r \in [ drop_hat : IF hat THEN BOOLEAN ELSE {FALSE},
               load_ok : IF switch THEN BOOLEAN ELSE {TRUE},
               pord : IF order \/ switch THEN Permutations_(IDs) ELSE {NoRnd.pord},
               spawn : [IDs -> SpawnIndices] ] :
         r.pord # NoRnd.pord => (order \/ r.load_ok) }

ServerEvent ==
  \/ \E rnd \in RndsFor(State) : \E join_msg \in JoinMsgs : HandleConn(join_msg, rnd)
  \/ HandleConnError
  \/ \E rnd \in RndsFor(State) : \E id \in IDs : HandleDrop(id, rnd)
  \/ \E id \in recv_loops : \E rnd \in Rnds : \E msg \in ClientMsgs(State, id, rnd) :
       rnd \in RndsOf(State, id, msg) /\ HandleClientMsg(id, msg, rnd)
  \/ \E rnd \in RndsFor(State) : \E repopulate \in SUBSET (1 .. MaxPickups) : HandleTick(repopulate, rnd)

Next ==
  \/ nevents < MaxEvents /\ ServerEvent /\ nevents' = nevents + 1
  \/ \E c \in IDs : ConnBreak(c) /\ UNCHANGED nevents

Spec == Init /\ [][Next]_vars

\* ------------------------------------------------------------ octree writes
\* no server is running
NoServer == Holds(NewState("DeadMatch")) /\ nevents = 0

NodeSizes == { 2 ^ k : k \in 1 .. MaxLogSize }

\* the non-empty cuboids with corners on the grid of the given step inside cube(ZERO, size)
GridCuboids(size, step) ==
  LET G == { i \in 0 .. size : i % step = 0 }
      I == { g \in G \X G : g[1] < g[2] }
  IN { Cuboid(ivec3(x[1], y[1], z[1]), ivec3(x[2], y[2], z[2])) : x \in I, y \in I, z \in I }

\* the ranges written to a root of the given size. A root of 2x2x2 voxels:
\* every cuboid. A larger root: of its first 2x2x2 voxels the four at z = 0
\* and the four at z = 1 together; and the root, its first octant, and each
\* half of the root away from the origin.
NodeRanges ==
  [size \in NodeSizes |->
     IF size = 2 THEN GridCuboids(2, 1)
     ELSE { cube(p, 1) : p \in iter_by(Cuboid(ZERO, ivec3(2, 2, 1)), 1) } \cup
          { Cuboid(ivec3(0, 0, 1), ivec3(2, 2, 2)) } \cup
          { r \in GridCuboids(size, size \div 2) :
              \/ r = cube(ZERO, size)
              \/ r = cube(ZERO, size \div 2)
              \/ r.max = ivec3(size, size, size) /\ Cardinality({ k \in 1 .. 3 : r.min[k] # 0 }) = 1 }]

InitNode ==
  /\ NoServer
  /\ NoExtra
  /\ root_size \in NodeSizes
  /\ \E v \in VoxelTypes : root = Uniform(v)
  /\ units = [pure |-> TRUE, v |-> EMPTY, at |-> {}]
  /\ voxels = EmptyMap
  /\ flat = EmptyMap
  /\ NoWorld

\* root.set_range(root_size, range, value)
NodeSetRange(range, value) ==
  /\ root' = Node_set_range(root, root_size, range, value)
  /\ units' = IF units.pure /\ range = cube(range.min, 1) /\ (units.at = {} \/ units.v = value)
              THEN [pure |-> TRUE, v |-> value, at |-> units.at \cup {range.min}]
              ELSE [pure |-> FALSE, v |-> EMPTY, at |-> {}]
  /\ UNCHANGED << root_size, voxels, flat >>
  /\ UNCHANGED << svars, bvars, xvars >>

NextNode == \E range \in NodeRanges[root_size] : \E value \in VoxelTypes : NodeSetRange(range, value)

SpecNode == InitNode /\ [][NextNode]_vars

\* ------------------------------------------------------------- voxel writes
\* the cuboids that are written: of three columns along x, the first in the
\* cell at negative x, one voxel, two voxels or a cell high
WriteXs == { << x0, x1 >> \in (0 - 1 .. 2) \X (0 - 1 .. 2) : x0 < x1 }
WriteYZs == { << 1, 1 >>, << 2, 1 >>, << 2, 2 >> }
WriteRanges ==
  { Cuboid(ivec3(x[1], 0, 0), ivec3(x[2], yz[1], yz[2])) : x \in WriteXs, yz \in WriteYZs }

\* every position of every cell that a write can touch
FlatDomain == iter_by(aligned_hull(Cuboid(ivec3(0 - 1, 0, 0), ivec3(2, 2, 2))), 1)

InitVoxels ==
  /\ NoServer
  /\ NoExtra
  /\ root = Uniform(EMPTY)
  /\ root_size = 1
  /\ units = [pure |-> FALSE, v |-> EMPTY, at |-> {}]
  /\ voxels = EmptyMap
  /\ flat = [p \in FlatDomain |-> EMPTY]
  /\ NoWorld

\* voxels.set_range(range, value), and the same write to the flat array
VoxelsSetRange(range, value) ==
  /\ voxels' = Voxels_set_range(voxels, range, value)
  /\ flat' = [p \in FlatDomain |-> IF contains(range, p) THEN value ELSE flat[p]]
  /\ UNCHANGED << root, root_size, units >>
  /\ UNCHANGED << svars, bvars, xvars >>

NextVoxels == \E range \in WriteRanges : \E value \in VoxelTypes : VoxelsSetRange(range, value)

SpecVoxels == InitVoxels /\ [][NextVoxels]_vars

\* ------------------------------------------------------------ bakery worker
\* Worker::wait_and_drain, its blocking recv: the worker wakes up
WorkerRecv ==
  /\ worker.pc = "recv"
  /\ to_worker # << >>
  /\ worker' = [handle_message(worker, Head(to_worker)) EXCEPT !.pc = "try_drain"]
  /\ to_worker' = Tail(to_worker)
  /\ woke' = [queue |-> to_worker, sent |-> Len(responses)]
  /\ UNCHANGED << from_worker, responses >>

\* Worker::try_drain, one try_recv: a message, or none, which ends the drain
\* and leads to the next bake or back to the blocking recv
WorkerTryRecv ==
  /\ worker.pc = "try_drain"
  /\ IF to_worker # << >>
     THEN /\ worker' = handle_message(worker, Head(to_worker))
          /\ to_worker' = Tail(to_worker)
     ELSE /\ worker' = [worker EXCEPT !.pc = IF backlog_is_empty(worker) THEN "recv" ELSE "bake_one_fast"]
          /\ UNCHANGED to_worker
  /\ UNCHANGED << from_worker, responses, woke >>

\* Worker::bake_one_fast
WorkerBake ==
  /\ worker.pc = "bake_one_fast"
  /\ \E popped \in IF worker.vao_backlog = {} THEN worker.lightmap_backlog ELSE {ZERO} :
       LET r == bake_one_fast(worker, popped)
       IN /\ worker' = [r.worker EXCEPT !.pc = "try_drain"]
          /\ from_worker' = from_worker \o r.send
          /\ responses' = responses \o r.send
  /\ UNCHANGED << to_worker, woke >>

WorkerStep ==
  /\ WorkerRecv \/ WorkerTryRecv \/ WorkerBake
  /\ UNCHANGED << voxels, status, models, last_call, ncalls >>
  /\ UNCHANGED << root, root_size, units, flat >>
  /\ UNCHANGED << svars, xvars >>

\* ------------------------------------------------------------------- bakery
\* The cells that requests are about: three in a row along x.
CellPositions == { ivec3(0 - CELL_SIZE, 0, 0), ZERO, ivec3(CELL_SIZE, 0, 0) }

\* The requests sent: a new content for the middle cell and the request to
\* rebuild it, and the request for the light of any cell.
Requests ==
  { UpdateCell(ZERO, Uniform(1)), RequestVAO(ZERO) } \cup { RequestLightmap(pos) : pos \in CellPositions }

\* three RequestLightmap, then UpdateCell and RequestVAO
LightmapsThenVAO ==
  << RequestLightmap(ivec3(0 - CELL_SIZE, 0, 0)), RequestLightmap(ZERO), RequestLightmap(ivec3(CELL_SIZE, 0, 0)),
     UpdateCell(ZERO, Uniform(1)), RequestVAO(ZERO) >>

\* Bakery::new on voxels that store three cells. The worker thread has not
\* run yet: nothing is queued for it, or LightmapsThenVAO is.
InitBakery ==
  /\ NoServer
  /\ NoExtra
  /\ root = Uniform(EMPTY)
  /\ root_size = 1
  /\ units = [pure |-> FALSE, v |-> EMPTY, at |-> {}]
  /\ flat = EmptyMap
  /\ voxels = [pos \in CellPositions |-> Uniform(2)]
  /\ status = EmptyMap
  /\ models = EmptyMap
  /\ to_worker \in { << >>, LightmapsThenVAO }
  /\ from_worker = << >>
  /\ worker = Worker(voxels)
  /\ responses = << >>
  /\ woke = [queue |-> << >>, sent |-> 0]
  /\ last_call = [type |-> "None"]
  /\ ncalls = 0

\* Bakery::update_cell, request_vao, request_lightmap: send
BakerySend(request) ==
  /\ ncalls < MaxRequests
  /\ ncalls' = ncalls + 1
  /\ to_worker' = Append(to_worker, request)
  /\ last_call' = [type |-> "send"]
  /\ UNCHANGED << voxels, status, models, from_worker, worker, responses, woke >>
  /\ UNCHANGED << root, root_size, units, flat >>
  /\ UNCHANGED << svars, xvars >>

NextBakery == (\E request \in Requests : BakerySend(request)) \/ WorkerStep

SpecBakery == InitBakery /\ [][NextBakery]_vars

\* A cell position that the voxels of InitBakery do not store.
AbsentCell == ivec3(0, CELL_SIZE, 0)

\* The requests of the control side while the worker runs: to rebuild the
\* middle cell, for its light, and for the light and the content of the cell
\* that is not stored.
FairRequests ==
  { RequestVAO(ZERO), RequestLightmap(ZERO), RequestLightmap(AbsentCell), UpdateCell(AbsentCell, Uniform(1)) }

NextBakeryFair == (\E request \in FairRequests : BakerySend(request)) \/ WorkerStep

\* The worker is a thread of its own (Bakery::new spawns serve_loop): it
\* takes a step whenever it can. Nothing is assumed of the control side.
SpecBakeryFair == InitBakery /\ [][NextBakeryFair]_vars /\ WF_vars(WorkerStep)

\* -------------------------------------------------------------- world edits
\* The edits: one voxel in the cell at negative x, the first and the second
\* voxel of the middle cell, and two voxels across the border of those cells.
EditRanges ==
  { cube(ivec3(x, 0, 0), 1) : x \in {0 - 2, 0, 1} } \cup { Cuboid(ivec3(0 - 1, 0, 0), ivec3(1, 1, 1)) }

\* where the camera is: at the cells, or so far away that it sees none
Cameras == { ZERO, ivec3(2000, 0, 0) }

\* voxels that store three filled cells
Stored == [pos \in CellPositions |-> Uniform(1)]

\* VoxelWorld::load of them: every cell has its model and is Clean
Loaded ==
  [status |-> [pos \in CellPositions |-> "Clean"],
   models |-> [pos \in CellPositions |-> bake_cell_buffer(Stored, pos)[1]]]

\* then a voxel at the far end of the cell at negative x is emptied
Dug == VoxelWorld_set_range(Stored, Loaded.status, cube(ivec3(0 - CELL_SIZE, 0, 0), 1), EMPTY)

\* and the world is drawn: the requests are on their way to the worker
DugAndDrawn == request_models_if_dirty(Dug.voxels, Dug.status, visible_range(ZERO))

\* VoxelWorld::new on Stored (everything is still to be baked), or
\* VoxelWorld::load (everything is Clean), or the latter after a first edit
\* has been drawn while the worker thread has not run
InitWorld ==
  /\ NoServer
  /\ NoExtra
  /\ root = Uniform(EMPTY)
  /\ root_size = 1
  /\ units = [pure |-> FALSE, v |-> EMPTY, at |-> {}]
  /\ flat = EmptyMap
  /\ \/ /\ voxels = Stored
        /\ status = EmptyMap /\ models = EmptyMap
        /\ to_worker = << >>
     \/ /\ voxels = Stored
        /\ status = Loaded.status /\ models = Loaded.models
        /\ to_worker = << >>
     \/ /\ voxels = Dug.voxels
        /\ status = DugAndDrawn.status /\ models = Loaded.models
        /\ to_worker = DugAndDrawn.sent
  /\ from_worker = << >>
  /\ worker = Worker(Stored)
  /\ responses = << >>
  /\ woke = [queue |-> << >>, sent |-> 0]
  /\ last_call = [type |-> "None"]
  /\ ncalls = 0

\* VoxelWorld::set_range(range, value)
SetRange(range, value) ==
  /\ ncalls < MaxCalls
  /\ ncalls' = ncalls + 1
  /\ LET r == VoxelWorld_set_range(voxels, status, range, value)
     IN voxels' = r.voxels /\ status' = r.status
  /\ last_call' = [type |-> "set_range", range |-> range, value |-> value]
  /\ UNCHANGED << models, to_worker, from_worker, worker, responses, woke >>
  /\ UNCHANGED << root, root_size, units, flat >>
  /\ UNCHANGED << svars, xvars >>

\* VoxelWorld::draw(engine, camera): receive_models, then request_models_if_dirty
Draw(cam_ipos) ==
  /\ ncalls < MaxCalls
  /\ ncalls' = ncalls + 1
  /\ LET got == receive_models(models, status, from_worker)
         req == request_models_if_dirty(voxels, got.status, visible_range(cam_ipos))
     IN /\ models' = got.models
        /\ status' = req.status
        /\ to_worker' = to_worker \o req.sent
  /\ from_worker' = << >>
  /\ last_call' = [type |-> "draw", camera |-> cam_ipos]
  /\ UNCHANGED << voxels, worker, responses, woke >>
  /\ UNCHANGED << root, root_size, units, flat >>
  /\ UNCHANGED << svars, xvars >>

NextWorld ==
  \/ \E range \in EditRanges : \E value \in VoxelTypes : SetRange(range, value)
  \/ \E cam_ipos \in Cameras : Draw(cam_ipos)
  \/ WorkerStep

SpecWorld == InitWorld /\ [][NextWorld]_vars

\* ------------------------------------------------------------ copy on write
\* what the editor writes: it digs out a voxel of the first cell, or a
\* cuboid across the first two cells, fills that voxel again, or fills a voxel
\* of a cell that does not exist yet
CowWrites ==
  { [range |-> cube(ivec3(0 - 2, 0, 0), 1), value |-> EMPTY],
    [range |-> Cuboid(ivec3(0 - 1, 0, 0), ivec3(1, 1, 1)), value |-> EMPTY],
    [range |-> cube(ivec3(0 - 2, 0, 0), 1), value |-> 1],
    [range |-> cube(ivec3(CELL_SIZE, 0, 0), 1), value |-> 1] }

\* the cells the editor starts with
CowStored == [pos \in CellPositions \ { ivec3(CELL_SIZE, 0, 0) } |-> Uniform(1)]

RECURSIVE new_each(_, _, _)
\* a handle for each of the cells of stored, in visit order
new_each(H, stored, visit) ==
  IF visit = << >> THEN [heap |-> H, cells |-> EmptyMap]
  ELSE LET first == Arc_new(H, stored[Head(visit)])
           rest == new_each(first.heap, stored, Tail(visit))
       IN [heap |-> rest.heap, cells |-> Insert(rest.cells, Head(visit), first.addr)]

\* Bakery::new(&voxels): the worker holds a cow_clone of the voxels; kept is
\* the Node each handle of the worker stood for when the worker got it
InitCow ==
  /\ NoServer
  /\ NoTiles /\ NoAllocator /\ NoSkeleton /\ NoRay /\ NoWire /\ NoInput /\ NoEffects /\ NoNetClient /\ NoServe
  /\ root = Uniform(EMPTY)
  /\ root_size = 1
  /\ units = [pure |-> FALSE, v |-> EMPTY, at |-> {}]
  /\ flat = EmptyMap
  /\ NoWorld
  /\ voxels = CowStored
  /\ LET made == new_each(EmptyMap, CowStored, InVisitOrder(DOMAIN CowStored))
         shared == cow_clone(made.heap, made.cells)
     IN /\ heap = shared.heap
        /\ arcs = [cells |-> made.cells, worker |-> shared.cells, kept |-> CowStored, channel |-> << >>, nwrites |-> 0]

\* everything but the handles, their allocations and the editor's voxels
CowRest == << svars, root, root_size, units, flat, bvars, tvars, lvars, kvars, rvars, wvars, ivars, fvars, nvars, uvars >>

\* the editor thread: voxels.set_range(range, value)
CowSetRange(range, value) ==
  /\ arcs.nwrites < MaxCalls
  /\ LET written == cow_set_range(heap, arcs.cells, range, value)
     IN /\ heap' = written.heap
        /\ arcs' = [arcs EXCEPT !.cells = written.cells, !.nwrites = @ + 1]
  /\ voxels' = Voxels_set_range(voxels, range, value)
  /\ UNCHANGED CowRest

\* the editor thread: bakery.update_cell(pos, voxels.cell_at(pos)), the
\* handle that request_models_if_dirty sends for a DirtyVAO cell
CowUpdateCell(pos) ==
  /\ Len(arcs.channel) < MaxRequests
  /\ pos \in DOMAIN arcs.cells
  /\ heap' = Arc_clone(heap, arcs.cells[pos])
  /\ arcs' = [arcs EXCEPT !.channel = Append(@, [pos |-> pos, cell |-> arcs.cells[pos], kept |-> heap[arcs.cells[pos]].node])]
  /\ UNCHANGED << voxels, CowRest >>

\* the worker thread: Worker::update_cell for the UpdateCell it receives
CowWorkerUpdateCell ==
  /\ arcs.channel # << >>
  /\ LET msg == Head(arcs.channel)
         set == cow_set_cell(heap, arcs.worker, msg.pos, msg.cell)
     IN /\ heap' = set.heap
        /\ arcs' = [arcs EXCEPT !.worker = set.cells, !.kept = Insert(@, msg.pos, msg.kept), !.channel = Tail(@)]
  /\ UNCHANGED << voxels, CowRest >>

NextCow ==
  \/ \E write \in CowWrites : CowSetRange(write.range, write.value)
  \/ \E pos \in CellPositions : CowUpdateCell(pos)
  \/ CowWorkerUpdateCell

SpecCow == InitCow /\ [][NextCow]_vars

\* ---------------------------------------------------------------- face tiles
\* the squares the whole of which can be handed to join_squares, relative to
\* the cell: unit squares and squares of 2 in the first three rows of the
\* plane on top of the cell, and two unit squares in the plane at its side
TopSquares ==
  { Rectangle(ivec3(x, y, CS), << 1, 1 >>, "Z") : x \in 0 .. CS - 1, y \in 0 .. 2 }
    \cup { Rectangle(ivec3(x, 0, CS), << 2, 2 >>, "Z") : x \in { i \in 0 .. CS - 2 : i % 2 = 0 } }
SideSquares == { Rectangle(ivec3(0, y, 0), << 1, 1 >>, "MinusX") : y \in 0 .. 1 }

\* the unit tiles that a rectangle covers: from its position, size.x along the
\* first tangent of its direction and size.y along the second
UnitTiles(r) ==
  { [direction |-> r.direction,
     position |-> vadd(r.position, vadd(vmul(Direction_ivec(tangents(r.direction)[1]), i),
                                        vmul(Direction_ivec(tangents(r.direction)[2]), j)))] :
      i \in 0 .. r.size[1] - 1, j \in 0 .. r.size[2] - 1 }

Covered(rectangles) == UNION { UnitTiles(r) : r \in rectangles }

\* no squares yet, for a cell at the origin or elsewhere
InitTiles ==
  /\ NoServer
  /\ NoEditor
  /\ NoCow /\ NoAllocator /\ NoSkeleton /\ NoRay /\ NoWire /\ NoInput /\ NoEffects /\ NoNetClient /\ NoServe
  /\ \E cell_pos \in { ZERO, ivec3(0 - CS, 0, CS) } :
       tiles = [cell_pos |-> cell_pos, squares |-> {}, joined |-> join_squares({}, cell_pos)]

\* one more square, which overlaps none of the others, and join_squares of
\* all of them; the squares are a set (push_square inserts into a HashSet), so
\* they are added in one order only, that of their positions
JoinOneMore(s) ==
  /\ \A t \in tiles.squares : Before(t.position, s.position)
  /\ Covered({s}) \cap Covered(tiles.squares) = {}
  /\ tiles' = [tiles EXCEPT !.squares = @ \cup {s}, !.joined = join_squares(tiles.squares \cup {s}, tiles.cell_pos)]
  /\ UNCHANGED << svars, evars, cvars, lvars, kvars, rvars, wvars, ivars, fvars, nvars, uvars >>

NextTiles ==
  \E q \in TopSquares \cup SideSquares :
    JoinOneMore(Rectangle(vadd(q.position, tiles.cell_pos), q.size, q.direction))

SpecTiles == InitTiles /\ [][NextTiles]_vars

\* --------------------------------------------------------- lightmap islands
\* the sizes of the faces that are allocated
FaceSizes == (1 .. 3) \X (1 .. 2)

\* the batches of alloc_all: two faces, for which the order matters or not
FaceBatches == { << Rectangle(ZERO, a, "Z"), Rectangle(ZERO, b, "Z") >> : a \in { << 1, 2 >>, << 3, 1 >> }, b \in { << 1, 1 >>, << 2, 2 >> } }

\* LightmapAllocator::new(LIGHTMAP_SIZE), as in map_faces; islands are the
\* faces allocated so far, each with the uv it got
InitAllocator ==
  /\ NoServer
  /\ NoEditor
  /\ NoCow /\ NoTiles /\ NoSkeleton /\ NoRay /\ NoWire /\ NoInput /\ NoEffects /\ NoNetClient /\ NoServe
  /\ allocator = [lm_pack |-> LightmapAllocator_new(LIGHTMAP_SIZE), islands |-> << >>]

AllocatorRest == << svars, evars, cvars, tvars, kvars, rvars, wvars, ivars, fvars, nvars, uvars >>

\* lm_pack.alloc(size)
Alloc(face_size) ==
  /\ Len(allocator.islands) < MaxIslands
  /\ LET got == alloc(allocator.lm_pack, face_size)
     IN allocator' = [lm_pack |-> got.allocator,
                      islands |-> Append(allocator.islands, [size |-> face_size, uv |-> got.result])]
  /\ UNCHANGED AllocatorRest

\* lm_pack.alloc_all(faces), the faces of one voxel type
AllocAll(faces) ==
  /\ Len(allocator.islands) + Len(faces) <= MaxIslands
  /\ LET got == alloc_all(allocator.lm_pack, faces)
     IN allocator' = [lm_pack |-> got.allocator,
                      islands |-> allocator.islands \o
                                    [i \in 1 .. Len(got.mapped) |-> [size |-> got.mapped[i][1].size, uv |-> got.mapped[i][2]]]]
  /\ UNCHANGED AllocatorRest

NextAllocator ==
  \/ \E face_size \in FaceSizes : Alloc(face_size)
  \/ \E faces \in FaceBatches : AllocAll(faces)

SpecAllocator == InitAllocator /\ [][NextAllocator]_vars

\* ------------------------------------------------------------ visible faces
\* what is written for the faces: voxels in two rows on either side of the
\* border between the first two cells, and the whole second cell, with the
\* empty voxel and two others
FaceRanges ==
  { cube(ivec3(x, y, 0), 1) : x \in { 0 - 1, 0 }, y \in { 0, 1 } } \cup { cube(ZERO, CELL_SIZE) }
FaceVoxelTypes == { EMPTY, 1, 2 }

NextFaces == \E range \in FaceRanges : \E value \in FaceVoxelTypes : VoxelsSetRange(range, value)

SpecFaces == InitVoxels /\ [][NextFaces]_vars

\* ------------------------------------------------------------ Skeleton
\* a floor one voxel thick with a wall on it that is one or two voxels high
SkeletonWorld(height) ==
  Voxels_set_range(
    Voxels_set_range(EmptyMap, Cuboid(ivec3(0 - 4, 0 - 1, 0 - 4), ivec3(8, 0, 4)), 1),
    Cuboid(ivec3(4, 0, 0 - 4), ivec3(6, height, 4)), 1)

WallOf1 == SkeletonWorld(1)
WallOf2 == SkeletonWorld(2)
WorldOf(name) == IF name = "WallOf1" THEN WallOf1 ELSE WallOf2

\* starting on the floor or above it, before the wall or away from it
StartPositions == { ivec3(0 - 1000, 0, 0), ivec3(1000, 0, 0), ivec3(1000, 1500, 0) }
\* standing or walking towards the wall, and jumping or falling
StartVelocities == { ivec3(x, y, 0) : x \in { 0, 24000 }, y \in { 0, 24000, 0 - 12000 } }
\* a frame at 60 per second, and the longest tick
TickTimes == { 16, 100 }

InitSkeleton ==
  /\ NoServer
  /\ NoEditor
  /\ NoCow /\ NoTiles /\ NoAllocator /\ NoRay /\ NoWire /\ NoInput /\ NoEffects /\ NoNetClient /\ NoServe
  /\ \E world \in { "WallOf1", "WallOf2" } : \E position \in StartPositions : \E velocity \in StartVelocities :
       /\ skeleton = [world |-> world,
                      self |-> [hsize |-> HSIZE, vsize |-> VSIZE, position |-> position, velocity |-> velocity],
                      upd |-> << >>,
                      nticks |-> 0]
       /\ pos_ok(skeleton.self, WorldOf(world), position)

SkeletonRest == << svars, evars, cvars, tvars, lvars, rvars, wvars, ivars, fvars, nvars, uvars >>

\* skeleton.tick(upd, world, dt)
SkeletonTick(dt) ==
  /\ skeleton.nticks < MaxTicks
  /\ LET after == Skeleton_tick(skeleton.self, WorldOf(skeleton.world), dt)
     IN skeleton' = [skeleton EXCEPT !.self = after.self,
                                     !.upd = @ \o after.upd,
                                     !.nticks = @ + 1]
  /\ UNCHANGED SkeletonRest

NextSkeleton == \E dt \in TickTimes : SkeletonTick(dt)

SpecSkeleton == InitSkeleton /\ [][NextSkeleton]_vars

\* ------------------------------------------------------------ ray intersection
Axes == 1 .. 3
\* the unit vector of an axis, times k
Along(axis, k) == [i \in 1 .. 3 |-> IF i = axis THEN k ELSE 0]

\* where the one filled voxel is along the axis: around the origin, in the
\* cells next to it on either side, and three cells away
VoxelOffsets ==
  { 0 - 3 * CELL_SIZE, 0 - CELL_SIZE - 1, 0 - 1, 0, CELL_SIZE + 1, 2 * CELL_SIZE, 3 * CELL_SIZE }
\* where the ray starts along the axis, in halves: half a voxel on either
\* side of the origin, and one voxel before it
RayStarts == { 0 - 2, 0 - 1, 1 }
RayVoxelTypes == { 1, 2 }

\* the ray along the axis through the middle of the voxels on it
AxisRay(axis, start, sign) ==
  DRay([i \in 1 .. 3 |-> IF i = axis THEN start ELSE 1], Along(axis, sign))

InitRay ==
  /\ NoServer
  /\ NoEditor
  /\ NoCow /\ NoTiles /\ NoAllocator /\ NoSkeleton /\ NoWire /\ NoInput /\ NoEffects /\ NoNetClient /\ NoServe
  /\ \E axis \in Axes : \E offset \in VoxelOffsets : \E value \in RayVoxelTypes :
       \E start \in RayStarts : \E sign \in { 0 - 1, 1 } :
         ray = [voxels |-> Voxels_set_range(EmptyMap, cube(Along(axis, offset), 1), value),
                axis |-> axis, offset |-> offset, value |-> value,
                ray |-> AxisRay(axis, start, sign),
                called |-> FALSE, result |-> None]

RayRest == << svars, evars, cvars, tvars, lvars, kvars, wvars, ivars, fvars, nvars, uvars >>

\* voxels.intersect(ray)
Intersect ==
  /\ ~ray.called
  /\ ray' = [ray EXCEPT !.called = TRUE, !.result = Voxels_intersect(ray.voxels, ray.ray)]
  /\ UNCHANGED RayRest

NextRay == Intersect

SpecRay == InitRay /\ [][NextRay]_vars

\* ------------------------------------------------------------ wire format
\* what the client is started with
WireJoinMsgs == [name : { << >>, << 97 >> }, avatar_id : { 0 }, team : { Red, Blue, Green }]
\* what a server sends first, or should not send first
WireServerMsgs == { SwitchMap(<< 109 >>, << >>, << >>, id) : id \in 1 .. 2 } \cup { DropPlayer(1) }
\* the magic numbers of other versions of the program
OtherMagics == { << 1, 0, 72, 84, 65, 67, 83, 255 >>, << 2, 0, 72, 84, 65, 67, 83, 254 >> }
\* what comes from a server of another version: its magic number and then
\* a message that this version could read, or could not
OtherPayloads == { bincode_serialize_ServerMsg(msg) : msg \in WireServerMsgs } \cup { << >>, u32le(9) }
\* where a connection that breaks cuts off what was sent
Cuts == { 0, 4, 8, 10 }

InitWire ==
  /\ NoServer
  /\ NoEditor
  /\ NoCow /\ NoTiles /\ NoAllocator /\ NoSkeleton /\ NoRay /\ NoInput /\ NoEffects /\ NoNetClient /\ NoServe
  /\ \E join \in WireJoinMsgs :
       wire = [pc |-> "connect", join |-> join, to_server |-> << >>, to_client |-> << >>,
               sent |-> << >>, closed |-> FALSE, read_from |-> << >>, result |-> << >>]

WireRest == << svars, evars, cvars, tvars, lvars, kvars, rvars, ivars, fvars, nvars, uvars >>

\* connect_with_result up to its flush: the client sends its JoinMsg
ClientJoin ==
  /\ wire.pc = "connect"
  /\ wire' = [wire EXCEPT !.pc = "joining",
                          !.to_server = @ \o serialize_into(bincode_serialize_JoinMsg(wire.join))]
  /\ UNCHANGED WireRest

\* a server of this version answers with serialize_into
ServerSend(msg) ==
  /\ wire.pc = "joining" /\ wire.sent = << >> /\ wire.to_server # << >>
  /\ wire' = [wire EXCEPT !.to_client = serialize_into(bincode_serialize_ServerMsg(msg)),
                          !.sent = serialize_into(bincode_serialize_ServerMsg(msg))]
  /\ UNCHANGED WireRest

\* a server of another version answers
OtherServerSend(magic, payload) ==
  /\ wire.pc = "joining" /\ wire.sent = << >> /\ wire.to_server # << >>
  /\ wire' = [wire EXCEPT !.to_client = magic \o payload, !.sent = magic \o payload]
  /\ UNCHANGED WireRest

\* the connection breaks: the client gets the first bytes of what was sent
Cut(n) ==
  /\ wire.pc = "joining" /\ wire.sent # << >> /\ ~wire.closed
  /\ n < Len(wire.to_client)
  /\ wire' = [wire EXCEPT !.to_client = Take(@, n), !.closed = TRUE]
  /\ UNCHANGED WireRest

\* connect_with_result from deserialize_from on
ClientAccept ==
  /\ wire.pc = "joining" /\ wire.sent # << >>
  /\ LET got == connect_from_stream(wire.to_client)
     IN wire' = [wire EXCEPT !.pc = IF got.ok THEN "connected" ELSE "failed",
                             !.result = got,
                             !.read_from = wire.to_client,
                             !.to_client = got.rest]
  /\ UNCHANGED WireRest

NextWire ==
  \/ ClientJoin
  \/ \E msg \in WireServerMsgs : ServerSend(msg)
  \/ \E magic \in OtherMagics : \E payload \in OtherPayloads : OtherServerSend(magic, payload)
  \/ \E n \in Cuts : Cut(n)
  \/ ClientAccept

SpecWire == InitWire /\ [][NextWire]_vars

\* ------------------------------------------------------------ InputState
\* beside the InputState: which keys are held down, which were held down at
\* some time since the last clear(), and which went down since then
InitInput ==
  /\ NoServer
  /\ NoEditor
  /\ NoCow /\ NoTiles /\ NoAllocator /\ NoSkeleton /\ NoRay /\ NoWire /\ NoEffects /\ NoNetClient /\ NoServe
  /\ input_state = [self |-> InputState_new,
                    held |-> [k \in Keys |-> FALSE],
                    was_held |-> [k \in Keys |-> FALSE],
                    went_down |-> [k \in Keys |-> FALSE],
                    nevents |-> 0]

InputRest == << svars, evars, cvars, tvars, lvars, kvars, rvars, wvars, fvars, nvars, uvars >>

\* a key that is up goes down: on_key(key, true)
KeyDown(key) ==
  /\ input_state.nevents < MaxInputEvents
  /\ ~input_state.held[key]
  /\ input_state' = [input_state EXCEPT !.self = record_key(@, key, TRUE),
                                        !.held[key] = TRUE,
                                        !.was_held[key] = TRUE,
                                        !.went_down[key] = TRUE,
                                        !.nevents = @ + 1]
  /\ UNCHANGED InputRest

\* a key that is down goes up: on_key(key, false)
KeyUp(key) ==
  /\ input_state.nevents < MaxInputEvents
  /\ input_state.held[key]
  /\ input_state' = [input_state EXCEPT !.self = record_key(@, key, FALSE),
                                        !.held[key] = FALSE,
                                        !.nevents = @ + 1]
  /\ UNCHANGED InputRest

\* the end of a tick: input_state.clear()
Clear ==
  /\ input_state.nevents < MaxInputEvents
  /\ input_state' = [input_state EXCEPT !.self = clear(@),
                                        !.was_held = input_state.held,
                                        !.went_down = [k \in Keys |-> FALSE],
                                        !.nevents = @ + 1]
  /\ UNCHANGED InputRest

NextInput ==
  \/ \E key \in Keys : KeyDown(key)
  \/ \E key \in Keys : KeyUp(key)
  \/ Clear

SpecInput == InitInput /\ [][NextInput]_vars

\* ------------------------------------------------------- effects of a client
\* A client's world.effects: effects are added as they are received or made,
\* and every tick ages them.  A tick lasts 0.1 s (MAX_TICK) or 0.125 s, after
\* which a laser beam is at 0 exactly on its second tick.
EffectTickTimes == { TICK_DT, LASERBEAM_TTL \div 2 }
NewEffects == { Effect_simple_line, Effect_particle_explosion }

InitEffects ==
  /\ NoServer
  /\ NoEditor
  /\ NoCow /\ NoTiles /\ NoAllocator /\ NoSkeleton /\ NoRay /\ NoWire /\ NoInput /\ NoNetClient /\ NoServe
  /\ effects = [world_effects |-> << >>, last |-> [type |-> "None"], nevents |-> 0]

EffectsRest == << svars, evars, cvars, tvars, lvars, kvars, rvars, wvars, ivars, nvars, uvars >>

\* World::handle_add_effect: world.effects.push(effect)
AddEffectToWorld(effect) ==
  /\ effects.nevents < MaxEffectEvents
  /\ effects' = [world_effects |-> Append(effects.world_effects, effect),
                 last |-> [type |-> "push"],
                 nevents |-> effects.nevents + 1]
  /\ UNCHANGED EffectsRest

\* ClientState::tick_effects(dt)
TickEffects(dt) ==
  /\ effects.nevents < MaxEffectEvents
  /\ effects' = [world_effects |-> tick_effects(effects.world_effects, dt),
                 last |-> [type |-> "tick_effects", dt |-> dt],
                 nevents |-> effects.nevents + 1]
  /\ UNCHANGED EffectsRest

NextEffects ==
  \/ \E effect \in NewEffects : AddEffectToWorld(effect)
  \/ \E dt \in EffectTickTimes : TickEffects(dt)

SpecEffects == InitEffects /\ [][NextEffects]_vars

\* ------------------------------------------------- a client's connection
\* A connected NetClient: the server writes messages to the TCP stream and
\* may close it or write something that does not decode; the download worker
\* decodes one message at a time into the channel; the upload worker writes
\* what the client handed to it, which may fail; the client ticks, with or
\* without a command on stdin and a diff of its GLClient.
NetServerMsgs(n) ==
  { [type |-> "UpdateHUD", loads |-> TRUE, n |-> n] }
  \cup { [type |-> "SwitchMap", loads |-> l, n |-> n] : l \in BOOLEAN }

NetDiffs == { << >>, << [type |-> "MovePlayer"] >> }
NetStdin == { None, Some("say hi") }

InitNetClient ==
  /\ NoServer
  /\ NoEditor
  /\ NoCow /\ NoTiles /\ NoAllocator /\ NoSkeleton /\ NoRay /\ NoWire /\ NoInput /\ NoEffects /\ NoServe
  /\ net_client = [ nc |-> [ error |-> None, applied |-> << >>, handed |-> << >>, nticks |-> 0,
                             recv |-> [queue |-> << >>, connected |-> TRUE],
                             send |-> [queue |-> << >>, connected |-> TRUE] ],
                    stream |-> [items |-> << >>, end |-> None],
                    decoded |-> << >>, written |-> << >>, nwritten |-> 0,
                    last |-> [type |-> "None"], nevents |-> 0 ]

NetClientRest == << svars, evars, cvars, tvars, lvars, kvars, rvars, wvars, ivars, fvars, uvars >>

\* the step made last, and their number
Stamp(last, next) == [next EXCEPT !.last = last, !.nevents = @ + 1]

\* the server's upload worker writes a message
NetServerWrite ==
  /\ net_client.nevents < MaxNetEvents
  /\ net_client.stream.end = None
  /\ \E msg \in NetServerMsgs(net_client.nwritten + 1) :
       net_client' = Stamp([type |-> "write"],
                           [net_client EXCEPT !.stream.items = Append(@, msg), !.nwritten = @ + 1])
  /\ UNCHANGED NetClientRest

\* the server closes the connection, or writes what does not decode
NetServerEnd(end) ==
  /\ net_client.nevents < MaxNetEvents
  /\ net_client.stream.end = None
  /\ net_client' = Stamp([type |-> "end"], [net_client EXCEPT !.stream.end = Some(end)])
  /\ UNCHANGED NetClientRest

\* start_download, one turn of its loop: deserialize_from blocks until there
\* is something to read; on Err the worker returns and drops worker_send
DownloadStep ==
  /\ net_client.nevents < MaxNetEvents
  /\ net_client.nc.recv.connected
  /\ net_client.stream.items # << >> \/ net_client.stream.end # None
  /\ net_client' = Stamp([type |-> "download"],
                         IF net_client.stream.items # << >>
                         THEN [net_client EXCEPT !.stream.items = Tail(@),
                                                 !.nc.recv.queue = Append(@, Head(net_client.stream.items)),
                                                 !.decoded = Append(@, Head(net_client.stream.items))]
                         ELSE [net_client EXCEPT !.nc.recv.connected = FALSE])
  /\ UNCHANGED NetClientRest

\* start_upload, one turn of its loop: recv blocks until there is a message;
\* all that is queued is written and flushed, or the write fails (always,
\* once the download worker has shut the stream down) and the worker shuts
\* the stream down and returns, dropping worker_recv: what the peer sent
\* and was not read yet may be lost
UploadStep(ok, lost) ==
  /\ net_client.nevents < MaxNetEvents
  /\ net_client.nc.send.connected
  /\ net_client.nc.send.queue # << >>
  /\ ok => net_client.nc.recv.connected
  /\ lost \in 0 .. Len(net_client.stream.items)
  /\ ok => lost = 0
  /\ net_client' =
       Stamp([type |-> "upload", ok |-> ok],
             IF ok
             THEN [net_client EXCEPT !.written = @ \o net_client.nc.send.queue, !.nc.send.queue = << >>]
             ELSE [net_client EXCEPT !.nc.send = [queue |-> << >>, connected |-> FALSE],
                                     !.stream = [items |-> SubSeq(@.items, 1, Len(@.items) - lost),
                                                 end |-> IF @.end = None THEN Some("EOF") ELSE @.end]])
  /\ UNCHANGED NetClientRest

\* NetClient::tick
NetTick(stdin, diff) ==
  /\ net_client.nevents < MaxNetEvents
  /\ net_client' = Stamp([type |-> "tick", stdin |-> stdin, diff |-> diff, error |-> net_client.nc.error],
                         [net_client EXCEPT !.nc = NetClient_tick(@, stdin, diff)])
  /\ UNCHANGED NetClientRest

NextNetClient ==
  \/ NetServerWrite
  \/ \E end \in { "EOF", "garbage" } : NetServerEnd(end)
  \/ DownloadStep
  \/ \E ok \in BOOLEAN : \E lost \in 0 .. MaxNetEvents : UploadStep(ok, lost)
  \/ \E stdin \in NetStdin : \E diff \in NetDiffs : NetTick(stdin, diff)

SpecNetClient == InitNetClient /\ [][NextNetClient]_vars

\* ------------------------------------------------------ the control loop
\* The event channel of the NetServer and its control loop.  Events are
\* numbered as they are queued.  The listen loop queues Conn for every
\* connection it accepts; the receive loop of a joined client queues what
\* that client sends, the ticker queues Ticks.  A peer that has connected
\* writes its JoinMsg, or closes the connection, or does neither.  The
\* control loop takes one event at a time; for Conn it first reads the
\* JoinMsg from the stream, which blocks until the peer has written or closed.
InitServe ==
  /\ NoServer
  /\ NoEditor
  /\ NoCow /\ NoTiles /\ NoAllocator /\ NoSkeleton /\ NoRay /\ NoWire /\ NoInput /\ NoEffects /\ NoNetClient
  /\ serve = [ recv_events |-> << >>, pc |-> "recv", conn |-> 0, streams |-> EmptyMap,
               clients |-> {}, handled |-> << >>, nqueued |-> 0 ]

ServeRest == << svars, evars, cvars, tvars, lvars, kvars, rvars, wvars, ivars, fvars, nvars >>

\* send_events.send(event); streams is what each accepted connection holds
\* for the server to read: nothing yet, the JoinMsg, or the end of the stream
Send(event) ==
  [serve EXCEPT !.recv_events = Append(@, [type |-> event, n |-> serve.nqueued + 1]),
                !.nqueued = @ + 1]

\* spawn_listen_loop: a connection is accepted
ListenLoop ==
  /\ serve.nqueued < MaxServeEvents
  /\ serve' = [Send("Conn") EXCEPT !.streams = Insert(@, serve.nqueued + 1, "nothing")]
  /\ UNCHANGED ServeRest

\* the peer of connection c writes its JoinMsg, or closes the connection
PeerWrites(c, what) ==
  /\ c \in DOMAIN serve.streams
  /\ serve.streams[c] = "nothing"
  /\ serve' = [serve EXCEPT !.streams[c] = what]
  /\ UNCHANGED ServeRest

\* spawn_recv_loop of a joined client, and spawn_ticker
EventSource(event) ==
  /\ serve.nqueued < MaxServeEvents
  /\ event \in { "ClientMessage", "Drop" } => serve.clients # {}
  /\ serve' = Send(event)
  /\ UNCHANGED ServeRest

\* serve_loop: recv_events.recv() and the handler of the event, up to the
\* flush of its envelopes; for Conn, up to the read of the JoinMsg
ServeLoopRecv ==
  /\ serve.pc = "recv"
  /\ serve.recv_events # << >>
  /\ LET event == Head(serve.recv_events)
         taken == [serve EXCEPT !.recv_events = Tail(@)]
     IN serve' = IF event.type = "Conn"
                 THEN [taken EXCEPT !.pc = "deserialize_from", !.conn = event.n]
                 ELSE [taken EXCEPT !.handled = Append(@, event.n)]
  /\ UNCHANGED ServeRest

\* handle_conn_with_result from the JoinMsg on: the blocking read returns
\* once the peer has written its JoinMsg (the player joins) or closed (Err)
HandleConnRead ==
  /\ serve.pc = "deserialize_from"
  /\ serve.streams[serve.conn] # "nothing"
  /\ serve' = [serve EXCEPT !.pc = "recv", !.conn = 0,
                            !.clients = IF serve.streams[serve.conn] = "JoinMsg"
                                        THEN @ \cup {serve.conn} ELSE @,
                            !.handled = Append(@, serve.conn)]
  /\ UNCHANGED ServeRest

ServeLoop == ServeLoopRecv \/ HandleConnRead

NextServe ==
  \/ ListenLoop
  \/ \E c \in 1 .. MaxServeEvents : \E what \in { "JoinMsg", "EOF" } : PeerWrites(c, what)
  \/ \E event \in { "ClientMessage", "Drop", "Tick" } : EventSource(event)
  \/ ServeLoopRecv
  \/ HandleConnRead

SpecServe == InitServe /\ [][NextServe]_vars

\* the control loop is a thread of its own: it runs whenever it can
SpecServeFair == SpecServe /\ WF_vars(ServeLoop)

\* -------------------------------------------------------------- game rules
\* The messages of a game under way: spawning, hits, moves onto lava or off
\* the world, and the commands that change the map or add an entity.
GameMsgs ==
  { ClientMsgReady, ClientMsgCommand(<< "switch", "mapB" >>), ClientMsgCommand(<< "summon", "party_hat" >>) }
  \cup { ClientMsgHit(v) : v \in IDs }
  \cup { ClientMsgMove([lava |-> l, below |-> b, touch |-> << >>]) : l, b \in BOOLEAN }

NextGame ==
  /\ nevents < MaxGameEvents
  /\ nevents' = nevents + 1
  /\ \/ \E id \in recv_loops : \E msg \in GameMsgs : \E rnd \in RndsOf(State, id, msg) :
          HandleClientMsg(id, msg, rnd)
     \/ \E rnd \in RndsFor(State) : \E repopulate \in SUBSET (1 .. MaxPickups) : HandleTick(repopulate, rnd)

\* ---------------------------------------------------------- kill attempts
\* The messages that can kill: spawning, hits, moves onto lava or off the world.
KillMsgs == { m \in GameMsgs : m.type # "Command" }

NextKill ==
  /\ nevents < MaxGameEvents
  /\ nevents' = nevents + 1
  /\ \/ \E id \in recv_loops : \E msg \in KillMsgs : \E rnd \in RndsOf(State, id, msg) :
          HandleClientMsg(id, msg, rnd)
     \/ HandleTick({}, NoRnd)

\* ------------------------------------------------------- spawn protection
\* The messages about protection and its expiry: spawning and hits.
TtlMsgs == { ClientMsgReady } \cup { ClientMsgHit(v) : v \in IDs }

NextTtl ==
  \/ /\ nevents < MaxTtlEvents
     /\ nevents' = nevents + 1
     /\ \E id \in recv_loops : \E msg \in TtlMsgs : \E rnd \in RndsOf(State, id, msg) :
          HandleClientMsg(id, msg, rnd)
  \/ HandleTick({}, NoRnd) /\ UNCHANGED nevents

\* A game under way: the state the server is in after a first Tick, the joins
\* of players with the given teams, ReadyToSpawn from those in `ready`, Ticks
\* until every spawn protection has worn off and, when hat is Some(k), the
\* MovePlayer with which the last player picks k out of a gift box.
RECURSIVE JoinEach(_, _)
JoinEach(S, teams) ==
  IF teams = << >> THEN S
  ELSE JoinEach(handle_conn_client(S, [name |-> "anon", avatar_id |-> 0, team |-> Head(teams)], NoRnd),
                Tail(teams))

RECURSIVE ReadyEach(_, _)
ReadyEach(S, ids) ==
  IF ids = << >> THEN S
  ELSE ReadyEach(on_client_msg(S, Head(ids), ClientMsgReady, NoRnd), Tail(ids))

RECURSIVE TickUntilVulnerable(_)
TickUntilVulnerable(S) ==
  IF \A i \in DOMAIN S.players : S.players[i].invulnerability_ttl = None THEN S
  ELSE TickUntilVulnerable(on_tick(S, {}, NoRnd))

PickHat(S, player_id, hat) ==
  IF hat = None THEN S
  ELSE LET e == CHOOSE x \in DOMAIN S.entities : S.entities[x].kind.tag = "GiftBox"
       IN on_client_msg(S, player_id,
                        ClientMsgMove([lava |-> FALSE, below |-> FALSE, touch |-> << << e, hat[1] >> >>]),
                        NoRnd)

GameStart(game_type, teams, ready, hat) ==
  PickHat(TickUntilVulnerable(ReadyEach(JoinEach(on_tick(NewState(game_type), {}, NoRnd), teams),
                                        SortedSeq(ready))),
          Len(teams), hat)

\* every id is taken: the players are of two teams in turn, or all of one
TeamLists == { [i \in IDs |-> IF i % 2 = 1 THEN Red ELSE Blue], [i \in IDs |-> Red] }

\* all wait to spawn, or all play and the last player may wear a hat
InitGame ==
  /\ \E game_type \in GameTypes : \E teams \in TeamLists :
       \/ Holds(GameStart(game_type, teams, {}, None))
       \/ \E hat \in {None, Some(PartyHat), Some(BerserkerHelmet)} :
            Holds(GameStart(game_type, teams, IDs, hat))
  /\ nevents = 0
  /\ NoEditor
  /\ NoExtra

SpecGame == InitGame /\ [][NextGame]_vars

SpecKill == InitGame /\ [][NextKill]_vars

SpecTtl == InitGame /\ [][NextTtl]_vars

\* ------------------------------------------------------------ moves
\* The frames a player can send in state S: on lava or not, below the world or
\* not, and touching entities whether or not the player is alive; gift boxes
\* hold one of rolls.
MoveFrames(S, player_id, rolls) ==
  { [lava |-> l, below |-> b, touch |-> t] :
      l \in BOOLEAN, b \in BOOLEAN,
      t \in { u \in TouchSeqs(S, player_id, DOMAIN S.entities, MaxTouch) :
                \A k \in DOMAIN u : u[k][2] \in rolls } }

\* The spawn point that pick_spawn_point draws is held fixed, the player that
\* moves is the last one, who may wear a hat, and gift boxes hold one of two hats.
NextMove ==
  /\ nevents < MaxGameEvents
  /\ nevents' = nevents + 1
  /\ \/ \E id \in recv_loops \cap {MaxPlayers} : \E msg \in { ClientMsgMove(f) : f \in MoveFrames(State, id, {PartyHat, BerserkerHelmet}) } :
          \E rnd \in { r \in RndsOf(State, id, msg) : r.spawn = NoRnd.spawn } :
            HandleClientMsg(id, msg, rnd)
     \/ \E id \in recv_loops \cap {MaxPlayers} : HandleClientMsg(id, ClientMsgReady, NoRnd)

SpecMove == InitGame /\ [][NextMove]_vars

\* ------------------------------------------------------------ pickups
\* What adds and removes gift boxes: moves that touch entities (gift boxes
\* hold another gift box or a party hat), hits, whose victims drop what they
\* hold, the summon and switch commands, and Ticks that repopulate.
PickupCommands == { << "summon", "gift_box" >>, << "switch", "mapB" >> }

NextPickup ==
  /\ nevents < MaxGameEvents
  /\ nevents' = nevents + 1
  /\ \/ \E id \in recv_loops \cap {MaxPlayers} :
          \E msg \in { ClientMsgMove(f) : f \in MoveFrames(State, id, {GiftBox(None), PartyHat}) } :
            \E rnd \in { r \in RndsOf(State, id, msg) : r.spawn = NoRnd.spawn } :
              HandleClientMsg(id, msg, rnd)
     \/ \E id \in recv_loops : \E msg \in { ClientMsgHit(v) : v \in IDs } \cup { ClientMsgReady } :
          \E rnd \in { r \in RndsOf(State, id, msg) : r.spawn = NoRnd.spawn } :
            HandleClientMsg(id, msg, rnd)
     \/ \E cmd \in PickupCommands : \E load_ok \in BOOLEAN :
          HandleClientMsg(1, ClientMsgCommand(cmd), [NoRnd EXCEPT !.load_ok = load_ok])
     \/ \E repopulate \in SUBSET (1 .. MaxPickups) : HandleTick(repopulate, NoRnd)

SpecPickup == InitGame /\ [][NextPickup]_vars

\* Clients have joined: the server after the first Tick of its ticker (the
\* envelopes of start-up have been flushed to nobody) and the joins of the
\* first n clients, of two teams in turn. The connection of client 1 is
\* "up", or "broken" (its upload worker has exited since), or "lost" (the
\* server has found out while flushing the ReadyToSpawn of that client, whose
\* receive loop is still running).
LoseFirst(S) ==
  on_client_msg([S EXCEPT !.broken = @ \cup {1}], 1, ClientMsgReady, NoRnd)

Joined(game_type, n, first) ==
  LET S == JoinEach(on_tick(NewState(game_type), {}, NoRnd),
                    [i \in 1 .. n |-> IF i % 2 = 1 THEN Red ELSE Blue])
  IN CASE first = "up" -> S
       [] first = "broken" -> [S EXCEPT !.broken = @ \cup {1}, !.replica[1] = None, !.effects_added[1] = << >>]
       [] first = "lost" -> LoseFirst(S)

InitSync ==
  /\ \E game_type \in GameTypes : \E n \in 0 .. MaxPlayers : \E first \in {"up", "broken", "lost"} :
       (first # "up" => n >= 1) /\ Holds(Joined(game_type, n, first))
  /\ nevents = 0
  /\ NoEditor
  /\ NoExtra

NextSync == nevents < MaxSyncEvents /\ ServerEvent /\ nevents' = nevents + 1

SpecSync == InitSync /\ [][NextSync]_vars

\* ================================================================= claims
\* the envelope is addressed to client c
AddressedTo(c, env) ==
  \/ env.to.kind = "All"
  \/ env.to.kind = "Just" /\ env.to.id = c
  \/ env.to.kind = "Not" /\ env.to.id # c

RECURSIVE MsgsFor(_, _)
MsgsFor(c, envs) ==
  IF envs = << >> THEN << >>
  ELSE (IF AddressedTo(c, Head(envs)) THEN << Head(envs).msg >> ELSE << >>) \o MsgsFor(c, Tail(envs))

\* the fields of a player that the server owns
ServerOwned(p) ==
  [ name |-> p.name, avatar_id |-> p.avatar_id, team |-> p.team, health |-> p.health,
    spawned |-> p.spawned, powerup |-> p.powerup, invulnerability_ttl |-> p.invulnerability_ttl ]

\* C1: the first message handed to the connection of any client that has
\* joined is SwitchMap, and when the last event is the join of c it carries
\* the current map name, the current players (the joiner among them), the
\* current entities and the id assigned to c.
C1_FirstMsgIsSwitchMap ==
  \A c \in IDs :
    /\ c \in DOMAIN players => first_msg[c] # None
    /\ first_msg[c] # None => first_msg[c][1].type = "SwitchMap"
    /\ (last_event.type = "Conn" /\ last_event.id = c /\ first_msg[c] # None
          /\ first_msg[c][1].type = "SwitchMap") =>
         LET m == first_msg[c][1]
         IN /\ m.map_name = maplist[curr_map]
            /\ m.player_id = c
            /\ c \in DOMAIN m.players
            /\ \A i \in DOMAIN players : i \in DOMAIN m.players /\ m.players[i] = players[i]
            /\ m.entities = entities

\* C2: after every event, what was handed to the connection of a connected
\* client c during the event is exactly the envelopes addressed to c, in the
\* order in which they were pushed to pending_diffs.
C2_SentInPushOrder ==
  \A c \in clients \ broken : sent[c] = MsgsFor(c, pushed)

\* C3: between events, when every client has applied all that was sent to it,
\* the world of each connected client has the server's player ids and
\* entities, and the server-owned fields of every player equal the server's.
C3_ReplicasAgree ==
  \A c \in clients \ broken :
    /\ replica[c] # None
    /\ DOMAIN replica[c][1].players = DOMAIN players
    /\ replica[c][1].entities = entities
    /\ \A i \in DOMAIN players :
         ServerOwned(replica[c][1].players[i]) = ServerOwned(players[i])

\* ------------------------------------------------- steps and their inputs
ScoreOf(sc, i) == IF i \in DOMAIN sc THEN sc[i] ELSE 0

\* the step handles HitPlayer(v) sent by a
HitStep(a, v) ==
  /\ nevents' # nevents
  /\ last_event'.type = "ClientMessage"
  /\ last_event'.id = a
  /\ last_event'.msg.type = "HitPlayer"
  /\ last_event'.msg.victim = v

\* the step handles a MovePlayer sent by p
MoveStep(p) ==
  /\ nevents' # nevents
  /\ last_event'.type = "ClientMessage"
  /\ last_event'.id = p
  /\ last_event'.msg.type = "MovePlayer"

\* the step handles ReadyToSpawn sent by p
ReadyStep(p) ==
  /\ nevents' # nevents
  /\ last_event'.type = "ClientMessage"
  /\ last_event'.id = p
  /\ last_event'.msg.type = "ReadyToSpawn"

TickStep == last_event'.type = "Tick"

SameTeam(a, v) == gametype = "TeamMatch" /\ players[a].team = players[v].team

\* v can be killed by a hit of a
Vulnerable(a, v) ==
  /\ a \in DOMAIN players
  /\ v \in DOMAIN players
  /\ players[v].spawned
  /\ players[v].invulnerability_ttl = None
  /\ ~SameTeam(a, v)

RespawnsIn(envs) == { k \in DOMAIN envs : envs[k].msg.type = "RequestRespawn" }

RicochetIn(envs) ==
  \E k \in DOMAIN envs :
    envs[k].to = All /\ envs[k].msg.type = "AddEffect" /\ envs[k].msg.effect = "ricochet"

\* C4: a HitPlayer(v) from a on a spawned victim that is not invulnerable, not
\* of a's team in a team match and holds no party hat unspawns the victim and
\* clears their powerup, pushes exactly one RequestRespawn, addressed to the
\* victim alone, raises a's score by exactly 1 and leaves every other score.
C4_SuccessfulHit ==
  [][\A a, v \in IDs :
       (HitStep(a, v) /\ Vulnerable(a, v) /\ players[v].powerup # Some(PartyHat)) =>
         /\ ~players'[v].spawned
         /\ players'[v].powerup = None
         /\ Cardinality(RespawnsIn(pushed')) = 1
         /\ \A k \in RespawnsIn(pushed') : pushed'[k].to = Just(v)
         /\ ScoreOf(score', a) = ScoreOf(score, a) + 1
         /\ \A i \in IDs \ {a} : ScoreOf(score', i) = ScoreOf(score, i)]_vars

\* a has just killed another player v with a hit
C4_Witness ==
  \E a, v \in DOMAIN players :
    /\ a # v
    /\ last_event.type = "ClientMessage" /\ last_event.id = a
    /\ last_event.msg.type = "HitPlayer" /\ last_event.msg.victim = v
    /\ ~players[v].spawned
    /\ ScoreOf(score, a) = 1
    /\ \E k \in DOMAIN pushed : pushed[k] = Envelope(Just(v), RequestRespawn(players[v].next_spawn_point))

\* a kill attempt on p, whose invulnerability_ttl is set: a hit, or p's own
\* MovePlayer on lava
KillAttemptOnInvulnerable(p) ==
  /\ p \in DOMAIN players
  /\ players[p].spawned
  /\ players[p].invulnerability_ttl # None
  /\ \/ \E a \in DOMAIN players : HitStep(a, p)
     \/ MoveStep(p) /\ last_event'.msg.frame.lava

\* C5 as stated: a kill attempt on a player whose invulnerability_ttl is set
\* (a hit, or their own MovePlayer on lava) changes no player score and no
\* team score, and the player stays spawned.
C5_InvulnerableStaysSpawned ==
  [][\A p \in IDs :
       KillAttemptOnInvulnerable(p) =>
         score' = score /\ team_score' = team_score /\ players'[p].spawned]_vars

\* C5 amended: no score ever changes; the player stays spawned unless the
\* MovePlayer also puts them below the bottom of the world.
C5_InvulnerableUnlessOffWorld ==
  [][\A p \in IDs :
       KillAttemptOnInvulnerable(p) =>
         /\ score' = score
         /\ team_score' = team_score
         /\ (MoveStep(p) /\ last_event'.msg.frame.below) \/ players'[p].spawned]_vars

\* an invulnerable player has just moved onto lava, and plays on
C5_Witness ==
  \E p \in DOMAIN players :
    /\ last_event.type = "ClientMessage" /\ last_event.id = p
    /\ last_event.msg.type = "MovePlayer" /\ last_event.msg.frame.lava
    /\ ~last_event.msg.frame.below
    /\ players[p].spawned
    /\ players[p].invulnerability_ttl # None

\* C7: in a team match a hit on a spawned player of the aggressor's team does
\* not kill, changes no score, and a ricochet effect is broadcast.
C7_SameTeamRicochet ==
  [][\A a, v \in IDs :
       (/\ HitStep(a, v)
        /\ a # v
        /\ a \in DOMAIN players /\ v \in DOMAIN players
        /\ players[v].spawned
        /\ SameTeam(a, v)) =>
         /\ players'[v].spawned
         /\ score' = score
         /\ team_score' = team_score
         /\ RicochetIn(pushed')]_vars

\* the last event is a Command that switched the map
SwitchOk(ev, envs) ==
  /\ ev.type = "ClientMessage"
  /\ ev.msg.type = "Command"
  /\ \E k \in DOMAIN envs :
       /\ envs[k].msg.type = "UpdateHUD"
       /\ envs[k].msg.kind = "Message"
       /\ envs[k].msg.text = "scoreboard"

\* C10: after a successful map switch every player's score is 0, in a team
\* match every team's score is 0, and the entities are exactly one gift box
\* per pickup point of the new map.
C10_SwitchResetsPerMapState ==
  SwitchOk(last_event, pushed) =>
    /\ \A i \in DOMAIN players : ScoreOf(score, i) = 0
    /\ gametype = "TeamMatch" => \A t \in DOMAIN team_score : team_score[t] = 0
    /\ Cardinality(DOMAIN entities) = Len(pickup_points)
    /\ \A i \in DOMAIN pickup_points :
         \E e \in DOMAIN entities : entities[e].kind = GiftBox(Some(i))

\* the default protection after k Ticks of the ticker, an Option
RECURSIVE AgedTtl(_)
AgedTtl(k) ==
  IF k = 0 THEN Some(DEFAULT_INVULN_TTL)
  ELSE LET t == AgedTtl(k - 1)
       IN IF t = None THEN None
          ELSE IF F32Sub(t[1], TICK_DT) > 0 THEN Some(F32Sub(t[1], TICK_DT)) ELSE None

AgedTtls == [k \in 0 .. 20 |-> AgedTtl(k)]

\* a Tick ages every protection, or clears it, and touches nothing else of a player
TickAges ==
  TickStep =>
    \A p \in DOMAIN players :
      /\ players'[p].spawned = players[p].spawned
      /\ players'[p].powerup = players[p].powerup
      /\ IF players[p].invulnerability_ttl = None
         THEN players'[p].invulnerability_ttl = None
         ELSE \/ players'[p].invulnerability_ttl = None
              \/ /\ players'[p].invulnerability_ttl[1] > 0
                 /\ players'[p].invulnerability_ttl[1] < players[p].invulnerability_ttl[1]

\* C6: ReadyToSpawn from a player who does not lead the score spawns them
\* with invulnerability_ttl = 1.5; a hit on a protected player changes no
\* score, leaves them spawned and broadcasts a ricochet to all; every Tick
\* lowers the ttl, which is never stored at a value <= 0 and is cleared
\* within 20 Ticks; a hit on a player without protection (and without the
\* party hat), by an aggressor who may hit them, kills them and scores.
C6_SpawnProtection ==
  /\ [](/\ AgedTtls[20] = None
        /\ \A p \in DOMAIN players :
             players[p].invulnerability_ttl # None =>
               /\ players[p].invulnerability_ttl[1] > 0
               /\ \E k \in 0 .. 19 : players[p].invulnerability_ttl = AgedTtls[k])
  /\ [][/\ \A p \in DOMAIN players :
            (ReadyStep(p) /\ ~has_best_score(State, p)) =>
              /\ players'[p].spawned
              /\ players'[p].invulnerability_ttl = Some(DEFAULT_INVULN_TTL)
        /\ \A a, v \in DOMAIN players :
            (HitStep(a, v) /\ players[v].spawned /\ players[v].invulnerability_ttl # None) =>
              /\ score' = score
              /\ team_score' = team_score
              /\ players'[v].spawned
              /\ RicochetIn(pushed')
        /\ TickAges
        /\ \A a, v \in DOMAIN players :
            (HitStep(a, v) /\ Vulnerable(a, v) /\ players[v].powerup # Some(PartyHat)) =>
              /\ ~players'[v].spawned
              /\ ScoreOf(score', a) = ScoreOf(score, a) + 1]_vars

\* a protected player, some Ticks after the protection began, has just been
\* hit: they play on and the ricochet went out
C6_Witness ==
  \E a, v \in DOMAIN players :
    /\ last_event.type = "ClientMessage" /\ last_event.id = a
    /\ last_event.msg.type = "HitPlayer" /\ last_event.msg.victim = v
    /\ players[v].spawned
    /\ players[v].invulnerability_ttl # None
    /\ players[v].invulnerability_ttl[1] < DEFAULT_INVULN_TTL
    /\ RicochetIn(pushed)

\* the outcome of a hit that the party hat absorbs
HatSaves(v) ==
  /\ players'[v].spawned
  /\ score' = score
  /\ team_score' = team_score
  /\ players'[v].powerup = None
  /\ players'[v].invulnerability_ttl = Some(DEFAULT_INVULN_TTL)

\* the hat being gone, a hit on the unprotected player kills; Ticks wear the
\* protection off and bring no hat back
HatGone ==
  /\ \A a, v \in DOMAIN players :
       (HitStep(a, v) /\ Vulnerable(a, v) /\ players[v].powerup = None) => ~players'[v].spawned
  /\ TickAges

\* C8 as stated: a hit by another player on a spawned, non-invulnerable victim
\* holding the party hat leaves them spawned, changes no score, clears their powerup and sets
\* invulnerability_ttl to 1.5; once that has worn off a further hit kills.
C8_PartyHatSavesOnce ==
  [][/\ \A a, v \in DOMAIN players :
          (/\ HitStep(a, v)
           /\ a # v
           /\ players[v].spawned
           /\ players[v].invulnerability_ttl = None
           /\ players[v].powerup = Some(PartyHat)) => HatSaves(v)
     /\ HatGone]_vars

\* C8 amended: the same, for any aggressor who is not of the victim's team in
\* a team match.
C8_PartyHatSavesFromOpponent ==
  [][/\ \A a, v \in DOMAIN players :
          (HitStep(a, v) /\ Vulnerable(a, v) /\ players[v].powerup = Some(PartyHat)) => HatSaves(v)
     /\ HatGone]_vars

\* the party hat of v has just absorbed a hit
C8_Witness ==
  \E a, v \in DOMAIN players :
    /\ a # v
    /\ last_event.type = "ClientMessage" /\ last_event.id = a
    /\ last_event.msg.type = "HitPlayer" /\ last_event.msg.victim = v
    /\ players[v].spawned
    /\ players[v].powerup = None
    /\ players[v].invulnerability_ttl = Some(DEFAULT_INVULN_TTL)
    /\ \E k \in DOMAIN pushed : pushed[k] = Envelope(All, UpdateHUD("Log", "saved by party hat"))

\* the step handles a Command that switched the map
SwitchStep == nevents' # nevents /\ SwitchOk(last_event', pushed')

\* msgs holds, in this order, a SwitchMap for c naming map m, a ForceMovePlayer
\* to a spawn point of m and the RequestRespawn for that spawn point
SwitchSequence(msgs, c, m) ==
  \E i, j, k \in DOMAIN msgs : \E sp \in SpawnPoints(m) :
    /\ i < j /\ j < k
    /\ msgs[i].type = "SwitchMap"
    /\ msgs[i].map_name = maplist[m]
    /\ msgs[i].player_id = c
    /\ msgs[j].type = "ForceMovePlayer" /\ msgs[j].position = sp
    /\ msgs[k].type = "RequestRespawn" /\ msgs[k].spawn_point = sp

\* C9: a successful Command "switch <map>" makes <map> the current map, keeps
\* every player (but those whose connection is found dead while the event is
\* flushed, who are dropped as after any event), leaves no player spawned,
\* and hands every connected client a SwitchMap naming the new map, then a
\* ForceMovePlayer and a RequestRespawn for a spawn point of the new map.
C9_SwitchMapSequence ==
  [][SwitchStep =>
       /\ maplist[curr_map'] = last_event'.msg.cmd[2]
       /\ DOMAIN players' = DOMAIN players \ (clients \ clients')
       /\ \A i \in DOMAIN players' : ~players'[i].spawned
       /\ \A c \in clients' \ broken' : SwitchSequence(sent'[c], c, curr_map')]_vars

\* two connected clients have been switched to the second map
C9_Witness ==
  /\ SwitchOk(last_event, pushed)
  /\ curr_map = 2
  /\ Cardinality(clients \ broken) = 2
  /\ \A c \in clients \ broken : SwitchSequence(sent[c], c, curr_map)

\* ------------------------------------------------ rejections and discards
\* the clients whose connection was found dead while the event was flushed
FlushDropped == clients \ clients'

\* the world and the scores are as before, but for the players that the
\* flush has dropped with their connection
WorldKept ==
  /\ curr_map' = curr_map
  /\ entities' = entities
  /\ pickup_points' = pickup_points
  /\ team_score' = team_score
  /\ DOMAIN players' = DOMAIN players \ FlushDropped
  /\ \A i \in DOMAIN players' : players'[i] = players[i]
  /\ DOMAIN score' = DOMAIN score \ FlushDropped
  /\ \A i \in DOMAIN score' : score'[i] = score[i]

CountMsg(msgs, m) == Cardinality({ k \in DOMAIN msgs : msgs[k] = m })

\* the step handles a Command sent by a
CommandStep(a) ==
  /\ nevents' # nevents
  /\ last_event'.type = "ClientMessage"
  /\ last_event'.id = a
  /\ last_event'.msg.type = "Command"

KnownKinds == {"gift_box", "cowboy_hat", "berserker_helmet", "party_hat", "xmas_hat"}

\* the four rejections: unknown command word, wrong number of arguments,
\* map not in the map list, unknown entity kind
Rejected(cmd) ==
  /\ Len(cmd) >= 1
  /\ \/ cmd[1] \notin {"summon", "switch"}
     \/ Len(cmd) # 2
     \/ cmd[1] = "switch" /\ \A i \in DOMAIN maplist : maplist[i] # cmd[2]
     \/ cmd[1] = "summon" /\ cmd[2] \notin KnownKinds

ErrorLog(a) == Envelope(Just(a), UpdateHUD("Log", "error"))

\* C11: a rejected Command of a player leaves the world, the scores and the
\* current map as they are and pushes exactly one envelope, the error Log
\* addressed to the sender alone (a connection found dead while that envelope
\* is flushed is dropped as after any event: its player leaves, with the two
\* envelopes of the drop).
C11_RejectedCommand ==
  [][\A a \in DOMAIN players :
       (CommandStep(a) /\ Rejected(last_event'.msg.cmd)) =>
         /\ WorldKept
         /\ pushed' # << >>
         /\ pushed'[1] = ErrorLog(a)
         /\ \A k \in DOMAIN pushed' :
              (pushed'[k].msg.type = "UpdateHUD" /\ pushed'[k].msg.text = "error") => k = 1
         /\ Len(pushed') = 1 + 2 * Cardinality(FlushDropped)
         /\ \A c \in (clients' \ broken') \ {a} : sent'[c] = << >> \/ FlushDropped # {}]_vars

\* a connected player has just been told, alone, that their command is rejected
C11_Witness ==
  \E a \in DOMAIN players :
    /\ a \in clients \ broken
    /\ Cardinality(clients \ broken) >= 2
    /\ last_event.type = "ClientMessage" /\ last_event.id = a
    /\ last_event.msg.type = "Command" /\ Rejected(last_event.msg.cmd)
    /\ pushed = << ErrorLog(a) >>
    /\ sent[a] = << ErrorLog(a).msg >>
    /\ \A c \in clients \ {a} : sent[c] = << >>

\* the step handles a message that names an absent player: as its sender, or
\* as the victim of a HitPlayer
AbsentStep ==
  /\ nevents' # nevents
  /\ last_event'.type = "ClientMessage"
  /\ \/ last_event'.id \notin DOMAIN players
     \/ last_event'.msg.type = "HitPlayer" /\ last_event'.msg.victim \notin DOMAIN players

\* C12: a ClientMessage whose sender is not a player of the world, and a
\* HitPlayer whose victim is not, change neither the world nor the scores,
\* push no envelope, hand nothing to any connection, and the control loop
\* does not panic.
C12_AbsentPlayerDiscarded ==
  [][AbsentStep =>
       /\ players' = players
       /\ entities' = entities
       /\ pickup_points' = pickup_points
       /\ curr_map' = curr_map
       /\ score' = score
       /\ team_score' = team_score
       /\ clients' = clients
       /\ pushed' = << >>
       /\ \A c \in IDs : sent'[c] = << >>
       /\ ~server_panic']_vars

\* a message has just been handled whose sender was dropped with its dead
\* connection, while others play on
C12_Witness ==
  /\ last_event.type = "ClientMessage"
  /\ last_event.id \notin DOMAIN players
  /\ last_event.id \in recv_loops
  /\ clients \ broken # {}
  /\ pushed = << >>
  /\ ~server_panic

\* the step handles the Drop event of id
DropStep(id) ==
  /\ nevents' # nevents
  /\ last_event'.type = "Drop"
  /\ last_event'.id = id

\* C13: after the Drop event of id the player is absent from the world, has
\* no score entry and no connection entry; DropPlayer(id) was handed exactly
\* once to every other client that is still connected, and not to id.
C13_DropRemovesPlayer ==
  [][\A id \in IDs :
       DropStep(id) =>
         /\ id \notin DOMAIN players'
         /\ id \notin DOMAIN score'
         /\ id \notin clients'
         /\ CountMsg(sent'[id], DropPlayer(id)) = 0
         /\ id \in DOMAIN players =>
              \A c \in clients' \ broken' : CountMsg(sent'[c], DropPlayer(id)) = 1]_vars

\* a player has just been dropped and another client was told
C13_Witness ==
  \E c \in clients \ broken :
    /\ last_event.type = "Drop"
    /\ last_event.id # c
    /\ last_event.id \notin DOMAIN players
    /\ last_event.id \notin clients
    /\ CountMsg(sent[c], DropPlayer(last_event.id)) = 1

\* the step handles an AddEffect or a PlaySound sent by player c
EffectStep(c) ==
  /\ nevents' # nevents
  /\ last_event'.type = "ClientMessage"
  /\ last_event'.id = c
  /\ last_event'.msg.type \in {"AddEffect", "PlaySound"}

\* the ServerMsg that forwards the ClientMsg m
Forwarded(m) == IF m.type = "AddEffect" THEN AddEffect(m.effect) ELSE PlaySound(m.clip)

\* C14: an AddEffect or PlaySound of player c is handed exactly once to every
\* other connected client and never to c, and leaves the world and the
\* scores as they are; every connected client, c included (which applies its
\* own effect itself), adds the effect to its world exactly once.
C14_EffectForwardedOnce ==
  [][\A c \in DOMAIN players :
       EffectStep(c) =>
         /\ \A x \in (clients' \ broken') \ {c} : CountMsg(sent'[x], Forwarded(last_event'.msg)) = 1
         /\ CountMsg(sent'[c], Forwarded(last_event'.msg)) = 0
         /\ WorldKept
         /\ last_event'.msg.type = "AddEffect" =>
              \A x \in clients' \ broken' :
                replica'[x] # None => effects_added'[x] = << last_event'.msg.effect >>]_vars

\* c's effect has just reached another client once, and c holds it once
C14_Witness ==
  \E c, x \in clients \ broken :
    /\ c # x
    /\ last_event.type = "ClientMessage" /\ last_event.id = c
    /\ last_event.msg.type = "AddEffect"
    /\ sent[c] = << >>
    /\ sent[x] = << AddEffect(last_event.msg.effect) >>
    /\ effects_added[c] = << last_event.msg.effect >>
    /\ effects_added[x] = << last_event.msg.effect >>

\* --------------------------------------------------------------- voxel store
\* the aligned cubes of at most a cell that lie in the cells a write can touch
AlignedCubes ==
  { Cube(p, 2 ^ k) : p \in FlatDomain, k \in 0 .. LOG_CELL_SIZE } \
  { c \in [position : FlatDomain, size : 1 .. CELL_SIZE] : \E i \in 1 .. 3 : c.position[i] % c.size # 0 }

CubePositions(c) == iter_by(cube(c.position, c.size), 1)

\* what a flat array holds in the cube c
FlatCube(c) ==
  IF \E v \in VoxelTypes : \A p \in CubePositions(c) : flat[p] = v
  THEN CubeUniform(flat[c.position])
  ELSE Mixed

\* C19: after any sequence of set_range calls with non-empty cuboids, at(p)
\* is what a flat array holds at p after the same writes (the value of the
\* last call whose cuboid contains p, empty if there is none), and
\* query_cube of an aligned cube of at most a cell is Uniform(v) exactly when
\* the flat array holds v all over the cube.
C19_SetRangeAgreesWithFlat ==
  /\ \A p \in DOMAIN flat : at(voxels, p) = flat[p]
  /\ flat # EmptyMap => \A c \in AlignedCubes : Voxels_query_cube(voxels, c) = FlatCube(c)

\* writes have left a whole cell uniformly filled, a cell at negative
\* coordinates partly filled, and an emptied voxel next to a filled one
C19_Witness ==
  /\ flat # EmptyMap
  /\ \E c \in DOMAIN voxels : voxels[c] = Uniform(1)
  /\ \E c \in DOMAIN voxels : c[1] < 0 /\ voxels[c].kind = "Composite"
  /\ flat[ivec3(0 - 1, 0, 0)] = 0 /\ flat[ivec3(0 - 1, 1, 0)] = 1 /\ flat[ivec3(0 - 2, 0, 0)] = 0

RECURSIVE Canonical(_)
\* no Composite in the tree holds eight identical Uniform children
Canonical(n) ==
  n.kind = "Composite" =>
    /\ ~(n.ch[1].kind = "Uniform" /\ \A i \in 1 .. 8 : n.ch[i] = n.ch[1])
    /\ \A i \in 1 .. 8 : Canonical(n.ch[i])

\* C20: after any sequence of Node::set_range calls on a root that started
\* Uniform, no Composite of the tree holds eight identical Uniform children;
\* a root written one unit voxel at a time with one value, in any order, is
\* the single Uniform of that value once every voxel has been written.
C20_OctreeCanonical ==
  /\ Canonical(root)
  /\ (units.pure /\ units.at = iter_by(cube(ZERO, root_size), 1)) => root = Uniform(units.v)

\* a root of eight voxels has been filled one voxel at a time
C20_Witness ==
  /\ root_size = 2
  /\ units.pure
  /\ units.at = iter_by(cube(ZERO, 2), 1)
  /\ root = Uniform(1)

\* -------------------------------------------------------------------- bakery
\* the worker bakes: one call of bake_one_fast
BakeStep == worker.pc = "bake_one_fast" /\ worker'.pc = "try_drain"

\* the responses sent by the step
NewResponses == SubSeq(responses', Len(responses) + 1, Len(responses'))

\* what baking the cells of a backlog gives with the voxels the worker holds
BatchOf(W, backlog) == [pos \in backlog \cap DOMAIN W.voxels |-> [baked_from |-> W.voxels]]

\* the worker woke up with LightmapsThenVAO queued, and has answered since
AnsweredLightmapsThenVAO ==
  /\ Len(woke.queue) >= Len(LightmapsThenVAO)
  /\ SubSeq(woke.queue, 1, Len(LightmapsThenVAO)) = LightmapsThenVAO
  /\ Len(responses) > woke.sent

\* C15: whenever the worker bakes while its VAO backlog is not empty, it
\* sends one response with every cell of that backlog, baked from the voxels
\* with every UpdateCell it has handled, empties the VAO backlog and leaves
\* the lightmap backlog alone; it bakes a single lightmap entry only when the
\* VAO backlog is empty. If three RequestLightmap and then UpdateCell and
\* RequestVAO are queued when the worker wakes up, its first response is the
\* VAO batch, with the updated cell.
C15_BakeryPriority ==
  [][/\ BakeStep =>
          IF worker.vao_backlog # {}
          THEN /\ NewResponses = << BatchOf(worker, worker.vao_backlog) >>
               /\ worker'.vao_backlog = {}
               /\ worker'.lightmap_backlog = worker.lightmap_backlog
               /\ worker'.voxels = worker.voxels
          ELSE \E pos \in worker.lightmap_backlog :
                 /\ worker'.lightmap_backlog = worker.lightmap_backlog \ {pos}
                 /\ NewResponses = IF pos \in DOMAIN worker.voxels THEN << BatchOf(worker, {pos}) >> ELSE << >>
     /\ AnsweredLightmapsThenVAO' =>
          /\ DOMAIN responses'[woke'.sent + 1] = {ZERO}
          /\ responses'[woke'.sent + 1][ZERO].baked_from[ZERO] = Uniform(1)]_vars

\* the worker woke up with the three RequestLightmap, UpdateCell and
\* RequestVAO queued and nothing else, and has sent the VAO batch and then
\* the light of another cell
C15_Witness ==
  /\ woke.queue = LightmapsThenVAO
  /\ Len(responses) >= woke.sent + 2
  /\ DOMAIN responses[woke.sent + 1] = {ZERO}
  /\ responses[woke.sent + 1][ZERO].baked_from[ZERO] = Uniform(1)
  /\ \E pos \in CellPositions \ {ZERO} : DOMAIN responses[woke.sent + 2] = {pos}

\* C16: no cell position is in the VAO backlog and in the lightmap backlog
\* of the worker at the same time.
C16_BacklogsDisjoint == worker.vao_backlog \cap worker.lightmap_backlog = {}

\* ---------------------------------------------------------------- dirty cells
SetRangeStep == ncalls' # ncalls /\ last_call'.type = "set_range"
DrawStep == ncalls' # ncalls /\ last_call'.type = "draw"

\* the stored cells of the aligned hull of the range, after the edit
HullCells(range) == { pos \in DOMAIN voxels' : contains(aligned_hull(range), pos) }

\* the stored cells of that hull extended by one cell on each side
ExtendedCells(range) ==
  LET h == aligned_hull(range)
  IN { pos \in DOMAIN voxels' :
         contains(Cuboid(vsub(h.min, vmul(ONES, CELL_SIZE)), vadd(h.max, vmul(ONES, CELL_SIZE))), pos) }

\* the range grown by one voxel on each side reaches into the cell at pos
GrownInto(range, pos) ==
  ~is_empty(intersect(Cuboid(vsub(range.min, ONES), vadd(range.max, ONES)), cube(pos, CELL_SIZE)))

NeverDowngraded ==
  \A pos \in DOMAIN voxels' :
    (pos \in DOMAIN voxels /\ status_of(status, pos) = "DirtyVAO") => status_of(status', pos) = "DirtyVAO"

\* C17 as stated: after set_range(range, v) every stored cell of the aligned
\* hull of the range is DirtyVAO and every other stored cell of the hull
\* extended by one cell is DirtyLightmap; no DirtyVAO cell is downgraded.
C17_EditMarksHullAndNeighbours ==
  [][SetRangeStep =>
       /\ \A pos \in HullCells(last_call'.range) : status_of(status', pos) = "DirtyVAO"
       /\ \A pos \in ExtendedCells(last_call'.range) \ HullCells(last_call'.range) :
            status_of(status', pos) = "DirtyLightmap"
       /\ NeverDowngraded]_vars

\* C17, amended: after set_range(range, v) every stored cell of the aligned
\* hull of the range is DirtyVAO; every other stored cell of the hull
\* extended by one cell is DirtyVAO if it was DirtyVAO before or if the range
\* grown by one voxel reaches into it, and DirtyLightmap otherwise; no
\* DirtyVAO cell is downgraded.
C17_EditMarksGrownHullAndNeighbours ==
  [][SetRangeStep =>
       /\ \A pos \in HullCells(last_call'.range) : status_of(status', pos) = "DirtyVAO"
       /\ \A pos \in ExtendedCells(last_call'.range) \ HullCells(last_call'.range) :
            status_of(status', pos) =
              IF GrownInto(last_call'.range, pos) \/ (pos \in DOMAIN voxels /\ status_of(status, pos) = "DirtyVAO")
              THEN "DirtyVAO" ELSE "DirtyLightmap"
       /\ NeverDowngraded]_vars

\* an edit of the first voxel of the middle cell has marked that cell and the
\* cell before it DirtyVAO, and the cell after it, which was Clean, DirtyLightmap
C17_Witness ==
  /\ last_call.type = "set_range"
  /\ last_call.range = cube(ZERO, 1)
  /\ status_of(status, ZERO) = "DirtyVAO"
  /\ status_of(status, ivec3(0 - CELL_SIZE, 0, 0)) = "DirtyVAO"
  /\ status_of(status, ivec3(CELL_SIZE, 0, 0)) = "DirtyLightmap"

\* the requests sent by the step
NewRequests == SubSeq(to_worker', Len(to_worker) + 1, Len(to_worker'))

\* the requests among them that are about the cell at pos, in order
About(pos) == SelectSeq(NewRequests, LAMBDA m : m.pos = pos)

\* the status of the cell at pos once the responses that have arrived are uploaded
Received(pos) == status_of(receive_models(models, status, from_worker).status, pos)

Dirty == {"DirtyVAO", "DirtyLightmap"}

\* C18: in a frame, after the finished models are received, each stored
\* cell of the visible range that is DirtyVAO has UpdateCell with its current
\* node and then RequestVAO sent and becomes VAOInflight; one that is
\* DirtyLightmap has one RequestLightmap sent and becomes LightmapInflight;
\* for any other cell nothing is sent and its status stays. The two requests
\* of a DirtyVAO cell are sent one right after the other. A cell becomes
\* dirty by set_range only, so it is requested at most once per marking.
C18_RequestsPerFrame ==
  [][/\ DrawStep =>
          /\ \A pos \in DOMAIN voxels :
               IF contains(visible_range(last_call'.camera), pos) /\ Received(pos) = "DirtyVAO"
               THEN /\ About(pos) = << UpdateCell(pos, voxels[pos]), RequestVAO(pos) >>
                    /\ \E k \in 1 .. Len(NewRequests) - 1 :
                         NewRequests[k] = UpdateCell(pos, voxels[pos]) /\ NewRequests[k + 1] = RequestVAO(pos)
                    /\ status_of(status', pos) = "VAOInflight"
               ELSE IF contains(visible_range(last_call'.camera), pos) /\ Received(pos) = "DirtyLightmap"
               THEN /\ About(pos) = << RequestLightmap(pos) >>
                    /\ status_of(status', pos) = "LightmapInflight"
               ELSE /\ About(pos) = << >>
                    /\ status_of(status', pos) = Received(pos)
          /\ \A k \in 1 .. Len(NewRequests) : NewRequests[k].pos \in DOMAIN voxels
     /\ ~DrawStep => NewRequests = << >>
     /\ \A pos \in DOMAIN voxels' :
          (status_of(status', pos) \in Dirty /\ pos \in DOMAIN voxels /\ status_of(status, pos) \notin Dirty)
            => SetRangeStep]_vars

\* a frame has sent UpdateCell and RequestVAO for one cell and RequestLightmap
\* for another, and nothing for a third, which is Clean
C18_Witness ==
  /\ last_call.type = "draw"
  /\ ncalls >= 1
  /\ \E a, b, c \in DOMAIN voxels :
       /\ status_of(status, a) = "VAOInflight"
       /\ status_of(status, b) = "LightmapInflight"
       /\ status_of(status, c) = "Clean"
       /\ \E k \in 1 .. Len(to_worker) - 2 :
            /\ to_worker[k] = UpdateCell(a, voxels[a])
            /\ to_worker[k + 1] = RequestVAO(a)
            /\ to_worker[k + 2] = RequestLightmap(b)
       /\ \A k \in 1 .. Len(to_worker) : to_worker[k].pos # c

\* ----------------------------------------------------------------- cell keys
\* the positions of the cells that a write can touch
TouchedCells == { p \in FlatDomain : valign_down(p) = p }

\* C21: after any sequence of set_range calls, a cell key is present in the
\* cell map if and only if that cell holds at least one non-empty voxel.
C21_KeyIffNonEmpty ==
  \A cell_pos \in TouchedCells :
    cell_pos \in DOMAIN voxels <=>
      \E p \in iter_by(cube(cell_pos, CELL_SIZE), 1) : at(voxels, p) # EMPTY

\* ------------------------------------------------------------ copy on write
\* the number of handles to the allocation at a: in Voxels.cells of the
\* editor, in those of the worker, and in the channel
Handles(a) ==
  Cardinality({ pos \in DOMAIN arcs.cells : arcs.cells[pos] = a })
    + Cardinality({ pos \in DOMAIN arcs.worker : arcs.worker[pos] = a })
    + Cardinality({ i \in 1 .. Len(arcs.channel) : arcs.channel[i].cell = a })

\* the allocations that have a handle
Held ==
  { arcs.cells[pos] : pos \in DOMAIN arcs.cells } \cup { arcs.worker[pos] : pos \in DOMAIN arcs.worker }
    \cup { arcs.channel[i].cell : i \in 1 .. Len(arcs.channel) }

\* C22: a cell handle of the bakery worker (from cow_clone at start-up or
\* from UpdateCell, also while it is still in the channel) stands for the
\* Node it stood for when it was taken, whatever the editor has written
\* since; the editor's Voxels hold all of its writes; a step of the worker
\* changes no Node. Every handle points to a live allocation, whose strong
\* count is the number of its handles.
C22_SnapshotIsolation ==
  [][/\ Deref(heap', arcs'.worker) = arcs'.kept
     /\ \A i \in 1 .. Len(arcs'.channel) : heap'[arcs'.channel[i].cell].node = arcs'.channel[i].kept
     /\ Deref(heap', arcs'.cells) = voxels'
     /\ \A a \in DOMAIN heap' : heap'[a].strong = Handles(a)'
     /\ Held' = DOMAIN heap'
     /\ (arcs'.cells = arcs.cells /\ voxels' = voxels) =>
          \A a \in DOMAIN heap \cap DOMAIN heap' : heap'[a].node = heap[a].node]_vars

\* the editor has written to a cell of which the worker holds the handle from
\* start-up, and to a cell of which a handle is in the channel: the worker's
\* handles and the editor's are now different allocations with different Nodes
C22_Witness ==
  /\ arcs # << >>
  /\ \E pos \in DOMAIN arcs.worker :
       /\ arcs.worker[pos] # arcs.cells[pos]
       /\ heap[arcs.worker[pos]].node = Uniform(1)
       /\ heap[arcs.cells[pos]].node.kind = "Composite"
  /\ \E i \in 1 .. Len(arcs.channel) :
       /\ arcs.channel[i].cell # arcs.cells[arcs.channel[i].pos]
       /\ arcs.channel[i].kept # heap[arcs.cells[arcs.channel[i].pos]].node
       /\ arcs.channel[i].kept.kind = "Composite"

\* --------------------------------------------------------------- face tiles
\* the rectangles r and q lie in one plane, face the same way, and share a
\* full edge: side by side in one row with one height, or one above the other
\* in one column with one width
ShareFullEdge(r, q) ==
  LET axis == unoriented_axis(r.direction)
      a == remove(r.position, axis)
      b == remove(q.position, axis)
  IN /\ r.direction = q.direction
     /\ r.position[axis + 1] = q.position[axis + 1]
     /\ \/ a[2] = b[2] /\ r.size[2] = q.size[2] /\ a[1] + r.size[1] = b[1]
        \/ a[1] = b[1] /\ r.size[1] = q.size[1] /\ a[2] + r.size[2] = b[2]

\* C23: for every set of squares of one cell that do not overlap, the
\* rectangles of join_squares cover, in each direction and plane, exactly the
\* unit tiles that the squares cover, and no unit tile twice.
C23_JoinPreservesCoverage ==
  tiles # << >> =>
    /\ Covered(tiles.joined) = Covered(tiles.squares)
    /\ \A r, q \in tiles.joined : r # q => UnitTiles(r) \cap UnitTiles(q) = {}

\* squares of 1 and of 2 in two planes, with a gap in a row, have been joined
\* into fewer rectangles
C23_Witness ==
  /\ tiles # << >>
  /\ \E s \in tiles.squares : s.size = << 2, 2 >>
  /\ \E s \in tiles.squares : s.direction = "MinusX"
  /\ \E s \in tiles.squares : s.direction = "Z" /\ s.size = << 1, 1 >>
  /\ \E r \in tiles.joined : r.size[1] > r.size[2] /\ r.size[2] > 1
  /\ \E p, q \in Covered(tiles.squares) :
       /\ p.direction = "Z" /\ q.direction = "Z"
       /\ q.position = vadd(p.position, ivec3(2, 0, 0))
       /\ [direction |-> "Z", position |-> vadd(p.position, ivec3(1, 0, 0))] \notin Covered(tiles.squares)
  /\ Cardinality(tiles.joined) < Cardinality(tiles.squares)

\* C24: no two rectangles of join_squares lie in one plane, face the same
\* way and share a full edge; squares that fill rows 0 and 1, columns 0 to
\* 2, of a plane are joined into the one rectangle of size (3, 2).
C24_NoTrivialJoinLeft ==
  tiles # << >> =>
    /\ \A r, q \in tiles.joined : ~ShareFullEdge(r, q)
    /\ (Covered(tiles.squares) =
          { [direction |-> "Z", position |-> vadd(tiles.cell_pos, ivec3(x, y, CS))] : x \in 0 .. 2, y \in 0 .. 1 })
         => tiles.joined = { Rectangle(vadd(tiles.cell_pos, ivec3(0, 0, CS)), << 3, 2 >>, "Z") }

\* unit squares that fill rows 0 and 1, columns 0 to 2, have been joined
C24_Witness ==
  /\ tiles # << >>
  /\ tiles.squares = { Rectangle(vadd(tiles.cell_pos, ivec3(x, y, CS)), << 1, 1 >>, "Z") : x \in 0 .. 2, y \in 0 .. 1 }
  /\ tiles.joined = { Rectangle(vadd(tiles.cell_pos, ivec3(0, 0, CS)), << 3, 2 >>, "Z") }

\* --------------------------------------------------------- lightmap islands
\* the texels of an island, of (w+1) x (h+1) texels at uv for a face of
\* w x h, grown by one texel on every side
Padded(island) ==
  (island.uv[1] - 1 .. island.uv[1] + island.size[1] + 1) \X (island.uv[2] - 1 .. island.uv[2] + island.size[2] + 1)

\* C25: for any sequence of alloc and alloc_all calls on one allocator, no
\* two of the islands handed out overlap, each grown by a padding of one texel
\* on every side.
C25_IslandsApart ==
  allocator # << >> =>
    \A i, j \in 1 .. Len(allocator.islands) :
      i # j => Padded(allocator.islands[i]) \cap Padded(allocator.islands[j]) = {}

\* a low island and then a higher one share a line, and a third island is at
\* the start of the next line
C25_Witness ==
  /\ allocator # << >>
  /\ Len(allocator.islands) >= 3
  /\ allocator.islands[1].uv[2] = allocator.islands[2].uv[2]
  /\ allocator.islands[1].size[2] < allocator.islands[2].size[2]
  /\ allocator.islands[3].uv[2] > allocator.islands[2].uv[2]
  /\ allocator.islands[3].uv[1] = MARGIN

\* ------------------------------------------------------------ visible faces
\* the voxel at p by the flat array, which is empty where nothing was written
FlatAt(p) == IF p \in DOMAIN flat THEN flat[p] ELSE EMPTY

\* the unit faces that a visited rectangle stands for: the voxel behind each
\* of its unit tiles, the direction, and the voxel type it was visited with
UnitFaces(face) ==
  { [p |-> vsub(t.position, vmul(unoriented_vec(face.rect.direction), side_index(face.rect.direction))),
     dir |-> face.rect.direction,
     voxel |-> face.voxel] : t \in UnitTiles(face.rect) }

\* the unit faces of the cell by the voxels: a non-empty voxel of the cell
\* with an empty voxel next to it
VisibleFaces(cell_pos) ==
  { f \in [p : iter_by(cube(cell_pos, CELL_SIZE), 1), dir : Directions, voxel : FaceVoxelTypes \ { EMPTY }] :
      FlatAt(f.p) = f.voxel /\ FlatAt(vadd(f.p, Direction_ivec(f.dir))) = EMPTY }

\* the two cells that are written to, and one next to them that never is
FaceCells == { ivec3(0 - CELL_SIZE, 0, 0), ZERO, ivec3(CELL_SIZE, 0, 0) }

\* C26: the rectangles visited by visit_faces(cell) cover, each exactly
\* once, the unit faces (p, dir) with p in the cell, at(p) non-empty and
\* at(p + dir) empty, also when p + dir lies in another cell, and each
\* rectangle comes with the voxel type at(p).
C26_FacesAreVisibleFaces ==
  \A cell_pos \in FaceCells :
    \A faces \in { visit_faces(voxels, cell_pos) } :
      /\ UNION { UnitFaces(f) : f \in faces } = VisibleFaces(cell_pos)
      /\ \A f, g \in faces : f # g => UnitFaces(f) \cap UnitFaces(g) = {}

\* a cell filled with one voxel type next to a cell with a single voxel of
\* another type at the border: the face of the whole cell towards it is cut
\* up, and one part of it is hidden
C26_Witness ==
  /\ ZERO \in DOMAIN voxels /\ voxels[ZERO] = Uniform(1)
  /\ FlatAt(ivec3(0 - 1, 0, 0)) = 2
  /\ FlatAt(ivec3(0 - 1, 1, 0)) = EMPTY
  /\ \E f \in visit_faces(voxels, ZERO) : f.rect.direction = "MinusX" /\ f.rect.size = << 1, 1 >> /\ f.voxel = 1
  /\ \E f \in visit_faces(voxels, ZERO) : f.rect.direction = "X" /\ f.rect.size = << CELL_SIZE, CELL_SIZE >>
  /\ \E f \in visit_faces(voxels, ivec3(0 - CELL_SIZE, 0, 0)) : f.voxel = 2 /\ f.rect.direction = "Y"

\* ------------------------------------------------------------ Skeleton
StandsFree(s) == pos_ok(s.self, WorldOf(s.world), s.self.position)

\* C27: after one Skeleton::tick from a position whose bounding box does not
\* bump into the voxels, with any velocity and dt of at most 100 ms, the
\* bounding box at the new position does not bump into the voxels.
C27_TickEndsOutsideVoxels ==
  [][StandsFree(skeleton) => StandsFree(skeleton')]_vars

\* ------------------------------------------------------------ ray intersection
\* where the ray starts on its axis and which way it goes
RayStart == ray.ray.start[ray.axis]
RaySign == ray.ray.dir[ray.axis]
\* the ray starts before the near face of the filled voxel and points to it
PointsToVoxel ==
  \/ RaySign = 1 /\ RayStart < 2 * ray.offset
  \/ RaySign = 0 - 1 /\ RayStart > 2 * (ray.offset + 1)
\* the ray starts outside the filled voxel and points the other way
PointsAway ==
  \/ RaySign = 0 - 1 /\ RayStart < 2 * ray.offset
  \/ RaySign = 1 /\ RayStart > 2 * (ray.offset + 1)
\* from the start of the ray to the near face, in halves
NearFace == IF RaySign = 1 THEN 2 * ray.offset - RayStart ELSE RayStart - 2 * (ray.offset + 1)

\* C28: with one unit voxel filled and a ray along an axis that starts
\* outside of it, intersect returns the voxel's type and the distance to
\* its near face when the ray points to it, wherever the voxel lies, and
\* none when the ray points away from it.
C28_IntersectAlongAxis ==
  ray.called =>
    /\ PointsToVoxel => ray.result = Some([voxel |-> ray.value, t |-> Fin(NearFace)])
    /\ PointsAway => ray.result = None

\* ------------------------------------------------------------ wire format
\* the client has read eight bytes from the server and they are not MAGIC
MagicMismatch ==
  /\ wire.pc \in { "connected", "failed" }
  /\ Len(wire.read_from) >= 8
  /\ Take(wire.read_from, 8) # MAGIC

\* C29: what serialize_into writes starts with the 8 bytes of MAGIC; when
\* the magic number received differs from MAGIC, deserialize_from returns
\* an error that tells the version mismatch, the number wanted and the one
\* received, and reads nothing after the magic number; a message is only
\* returned when the magic number is MAGIC, and it is the message that was
\* sent; after a mismatch in the server's first answer connect has failed.
C29_MagicGuardsTheStream ==
  /\ wire.to_server # << >> => Take(wire.to_server, 8) = MAGIC
  /\ \A msg \in WireServerMsgs : Take(serialize_into(bincode_serialize_ServerMsg(msg)), 8) = MAGIC
  /\ MagicMismatch =>
       /\ wire.pc = "failed"
       /\ wire.result = Read_Err([error |-> "server-client version mismatch",
                                  want |-> MAGIC, got |-> Take(wire.read_from, 8)],
                                 Skip(wire.read_from, 8))
  /\ wire.pc = "connected" =>
       /\ Take(wire.read_from, 8) = MAGIC
       /\ wire.result.ok
       /\ wire.read_from = serialize_into(bincode_serialize_ServerMsg(wire.result.v)) \o wire.result.rest

\* the server's answer had another magic number and then a message that
\* this version could read; the client has read the magic number only
C29_Witness ==
  /\ MagicMismatch
  /\ Skip(wire.read_from, 8) = bincode_serialize_ServerMsg(SwitchMap(<< 109 >>, << >>, << >>, 1))
  /\ wire.to_client = Skip(wire.read_from, 8)

\* ------------------------------------------------------------ InputState
\* C30: for any sequence of record_key and clear calls, is_down(key) is
\* true if and only if the key was down at some time since the previous
\* clear(), and is_pressed(key) if and only if it went from up to down
\* since the previous clear().
C30_Debounce ==
  \A key \in Keys :
    /\ is_down(input_state.self, key) <=> input_state.was_held[key]
    /\ is_pressed(input_state.self, key) <=> input_state.went_down[key]

\* ------------------------------------------------ one kill for each spawn
\* C31: a HitPlayer(v) handled while v waits to respawn is ignored: no score
\* changes, nothing is pushed (no RequestRespawn), no entity is dropped and no
\* player changes; a hit that kills pushes one RequestRespawn and unspawns the
\* victim; and only a ReadyToSpawn from v spawns v again.  So between two
\* ReadyToSpawn of v at most one hit kills v.
C31_OneKillPerSpawn ==
  [][\A a, v \in IDs :
       /\ (HitStep(a, v) /\ v \in DOMAIN players /\ ~players[v].spawned) =>
            /\ score' = score
            /\ pushed' = << >>
            /\ entities' = entities
            /\ players' = players
       /\ (HitStep(a, v) /\ v \in DOMAIN players /\ players[v].spawned) =>
            /\ Cardinality(RespawnsIn(pushed')) <= 1
            /\ (RespawnsIn(pushed') # {} \/ score' # score) => ~players'[v].spawned
       /\ (v \in DOMAIN players /\ v \in DOMAIN players'
           /\ ~players[v].spawned /\ players'[v].spawned) => ReadyStep(v)]_vars

\* v was killed by a hit of a, and the hit handled last, again on v, was ignored
C31_Witness ==
  \E a, v \in DOMAIN players :
    /\ a # v
    /\ last_event.type = "ClientMessage"
    /\ last_event.msg.type = "HitPlayer" /\ last_event.msg.victim = v
    /\ ~players[v].spawned
    /\ ScoreOf(score, a) = 1
    /\ pushed = << >>
    /\ nevents = 2

\* ------------------------------------------------ one kill for each move
\* C32: handling one MovePlayer of p pushes at most one RequestRespawn, to p
\* alone, and lowers p's score by at most 1; a p that is not spawned stays so,
\* triggers no RequestRespawn and picks up nothing; a spawned p on lava with
\* neither party hat nor invulnerability is killed, loses exactly 1 point and
\* picks up nothing although it touches entities; a party-hat wearer keeps the
\* score and stays spawned unless below the world; and p is only killed on
\* lava or below the world.
C32_MoveKillsOnce ==
  [][\A p \in IDs : (MoveStep(p) /\ p \in DOMAIN players) =>
       LET frame == last_event'.msg.frame
           me == players[p]
           PicksNothing == /\ DOMAIN entities \subseteq DOMAIN entities'
                           /\ pickup_points' = pickup_points
       IN /\ Cardinality(RespawnsIn(pushed')) <= 1
          /\ \A k \in RespawnsIn(pushed') : pushed'[k].to = Just(p)
          /\ ScoreOf(score', p) >= ScoreOf(score, p) - 1
          /\ \A i \in IDs \ {p} : ScoreOf(score', i) = ScoreOf(score, i)
          /\ ~me.spawned =>
               /\ ~players'[p].spawned
               /\ RespawnsIn(pushed') = {}
               /\ score' = score
               /\ entities' = entities
               /\ players'[p].powerup = me.powerup
               /\ PicksNothing
          /\ (me.spawned /\ frame.lava /\ me.powerup # Some(PartyHat) /\ me.invulnerability_ttl = None) =>
               /\ ~players'[p].spawned
               /\ players'[p].powerup = None
               /\ ScoreOf(score', p) = ScoreOf(score, p) - 1
               /\ Cardinality(RespawnsIn(pushed')) = 1
               /\ PicksNothing
          /\ (me.spawned /\ me.powerup = Some(PartyHat)) =>
               /\ ScoreOf(score', p) = ScoreOf(score, p)
               /\ ~frame.below => players'[p].spawned
          /\ (me.spawned /\ ~players'[p].spawned) =>
               /\ frame.lava \/ frame.below
               /\ Cardinality(RespawnsIn(pushed')) = 1]_vars

\* p has just died in lava while touching a gift box, below the world at once
C32_Witness ==
  \E p \in DOMAIN players :
    /\ last_event.type = "ClientMessage" /\ last_event.id = p
    /\ last_event.msg.type = "MovePlayer"
    /\ last_event.msg.frame.lava /\ last_event.msg.frame.below
    /\ last_event.msg.frame.touch # << >>
    /\ ~players[p].spawned
    /\ ScoreOf(score, p) = -1
    /\ Cardinality(RespawnsIn(pushed)) = 1
    /\ entities # EmptyMap

\* ------------------------------------------------------- ageing of effects
\* the number of times each effect occurs in v
BagOf(v) == [e \in { v[k] : k \in DOMAIN v } |-> Cardinality({ k \in DOMAIN v : v[k] = e })]

\* every effect aged by dt once, in order
RECURSIVE AgedBy(_, _)
AgedBy(v, dt) ==
  IF v = << >> THEN << >>
  ELSE << [Head(v) EXCEPT !.ttl = F32Sub(@, dt)] >> \o AgedBy(Tail(v), dt)

Survivors(v, dt) == SelectSeq(AgedBy(v, dt), LAMBDA e : e.ttl > 0)

\* C33: tick_effects(dt) leaves, as a multiset, exactly the effects it found
\* with ttl - dt > 0, each with its ttl lowered by dt once.
C33_EffectsAgeOnce ==
  [][effects'.last.type = "tick_effects" =>
       BagOf(effects'.world_effects) = BagOf(Survivors(effects.world_effects, effects'.last.dt))]_vars

\* of three effects, the second tick of 0.125 s has removed the two laser
\* beams, which reached 0 exactly, and kept the explosion
C33_Witness ==
  /\ effects # << >>
  /\ effects.last = [type |-> "tick_effects", dt |-> LASERBEAM_TTL \div 2]
  /\ effects.nevents = 5
  /\ effects.world_effects = << Effect(PARTICLES_TTL - LASERBEAM_TTL, "ParticleExplosion") >>

\* --------------------------------------------- a failed connection stays so
IsPrefix(s, t) == Len(s) <= Len(t) /\ SubSeq(t, 1, Len(s)) = s

\* the step is a tick of the NetClient
NetTickStep == net_client'.last.type = "tick"

\* the commands and diffs the tick was given, in the order it sends them
Outgoing(last) ==
  (IF last.stdin # None THEN << [type |-> "Command", cmd |-> last.stdin[1]] >> ELSE << >>) \o last.diff

\* C34: what the download worker decoded before it stopped is still applied,
\* in order, before the closed channel is reported as an error; the first
\* error of a tick is recorded; and once an error is recorded no step changes
\* the error, applies a message, takes one from the channel or sends one.
C34_FailureIsSticky ==
  [][LET nc == net_client.nc
         after == net_client'.nc
     IN /\ IsPrefix(after.applied, net_client'.decoded)
        /\ nc.error # None =>
             /\ after.error = nc.error
             /\ after.applied = nc.applied
             /\ after.handed = nc.handed
             /\ after.nticks = nc.nticks
             /\ NetTickStep => after = nc
        /\ (NetTickStep /\ nc.error = None) =>
             /\ after.error = None =>
                  /\ after.applied = nc.applied \o nc.recv.queue
                  /\ after.handed = nc.handed \o Outgoing(net_client'.last)
                  /\ nc.recv.connected
             /\ after.error = Some("receiving on a closed channel") =>
                  /\ ~nc.recv.connected
                  /\ after.applied = net_client.decoded
                  /\ IsPrefix(after.handed, nc.handed \o Outgoing(net_client'.last))
                  /\ Len(after.handed) <= Len(nc.handed) + 1
             /\ (~nc.recv.connected \/ (~nc.send.connected /\ Outgoing(net_client'.last) # << >>)) =>
                  after.error # None]_vars

\* the download worker stopped with a message in the channel, a tick applied
\* it and reported the closed channel, and a later tick, with a command and
\* a diff to send, was made with this error recorded
C34_Witness ==
  /\ net_client # << >>
  /\ net_client.nc.error = Some("receiving on a closed channel")
  /\ Len(net_client.nc.applied) = 1
  /\ net_client.nc.applied = net_client.decoded
  /\ net_client.last.type = "tick"
  /\ net_client.last.error = net_client.nc.error
  /\ net_client.last.stdin # None /\ net_client.last.diff # << >>
  /\ net_client.nc.handed = << >>
  /\ net_client.nc.send.connected

\* ------------------------------------------------- edits and baked models
\* the camera at the origin sees every cell of CellPositions
VisibleStored == { pos \in DOMAIN voxels : contains(visible_range(ZERO), pos) }

\* edits have stopped and the bakery is idle: nothing is on its way to or
\* from the worker, the worker waits for a message with empty backlogs, and
\* a frame would request nothing
Settled ==
  /\ to_worker = << >>
  /\ from_worker = << >>
  /\ worker.pc = "recv"
  /\ backlog_is_empty(worker)
  /\ \A pos \in VisibleStored : status_of(status, pos) \notin { "DirtyVAO", "DirtyLightmap" }

\* the model installed for pos was baked from the cell's present content
Fresh(pos) ==
  /\ pos \in DOMAIN models
  /\ cell_at(models[pos].baked_from, pos) = Some(voxels[pos])

\* C35: once edits have stopped and the bakery is idle, every visible stored
\* cell is Clean and the model installed for it was baked from a snapshot
\* equal to the cell's present content.
C35_NoEditLost == Settled => \A pos \in VisibleStored : status_of(status, pos) = "Clean" /\ Fresh(pos)

\* ------------------------------------------------------- one drop per player
\* C36: the control loop never looks up a player that is absent from the
\* world: handling a Drop event, also for a client that was dropped by a
\* failed send before, does not panic.
C36_DropNeverPanics == ~server_panic

\* ------------------------------------------------ progress of the control loop
EventQueued(n) == \E k \in DOMAIN serve.recv_events : serve.recv_events[k].n = n
EventHandled(n) == \E k \in DOMAIN serve.handled : serve.handled[k] = n

\* C37: every ClientMessage, Drop and Tick event queued on the event channel
\* is eventually handled, whatever the peers of other connections do.
C37_QueuedIsHandled ==
  \A n \in 1 .. MaxServeEvents :
    (\E k \in DOMAIN serve.recv_events : serve.recv_events[k].n = n /\ serve.recv_events[k].type # "Conn")
      ~> EventHandled(n)

\* ------------------------------------------------------ pickup bookkeeping
\* the gift boxes that belong to pickup point i
BoxesOf(i) ==
  { e \in DOMAIN entities : entities[e].kind.tag = "GiftBox" /\ entities[e].kind.pickup_point_id = Some(i) }

\* C38: a pickup point of the current map is not taken exactly when one gift
\* box belongs to it, no point ever has two boxes, and no gift box belongs
\* to a point that the current map does not have.
C38_PickupBookkeeping ==
  /\ \A i \in DOMAIN pickup_points :
       /\ ~pickup_points[i].taken <=> Cardinality(BoxesOf(i)) = 1
       /\ Cardinality(BoxesOf(i)) <= 1
  /\ \A e \in DOMAIN entities :
       (entities[e].kind.tag = "GiftBox" /\ entities[e].kind.pickup_point_id # None) =>
          entities[e].kind.pickup_point_id[1] \in DOMAIN pickup_points

\* a player holds what was in the gift box of a point, and a Tick has just
\* populated that point again, with a box made after those of the start
C38_Witness ==
  /\ last_event.type = "Tick"
  /\ nevents = 2
  /\ \A i \in DOMAIN pickup_points : ~pickup_points[i].taken
  /\ \E i \in DOMAIN pickup_points : \E e \in BoxesOf(i) : e > MaxPickups
  /\ \E p \in DOMAIN players : players[p].powerup # None

\* C39: every island handed out by LightmapAllocator::alloc lies inside the
\* size x size atlas together with its margin: origin.x + w + 1 < size and
\* origin.y + h + 1 < size, so that bake_face, which writes the texels
\* origin ..= origin + (w, h), stays inside the lightmap image.
C39_IslandsInside ==
  allocator # << >> =>
    \A i \in 1 .. Len(allocator.islands) :
      LET island == allocator.islands[i]
      IN /\ island.uv[1] + island.size[1] + 1 < allocator.lm_pack.size
         /\ island.uv[2] + island.size[2] + 1 < allocator.lm_pack.size

\* a RequestVAO or RequestLightmap for pos is queued or in a backlog
Requested(pos) ==
  \/ \E i \in DOMAIN to_worker :
       to_worker[i].type \in { "RequestVAO", "RequestLightmap" } /\ to_worker[i].pos = pos
  \/ pos \in worker.vao_backlog \cup worker.lightmap_backlog

\* the worker blocks in recv with nothing queued and both backlogs empty
WorkerIdle == worker.pc = "recv" /\ to_worker = << >> /\ backlog_is_empty(worker)

\* bake_one_fast takes pos, a cell of the worker's snapshot, out of the
\* backlogs: the response it sends with that step holds pos
AnsweredWhenTaken(pos) ==
  (Requested(pos) /\ pos \in DOMAIN worker.voxels /\ ~Requested(pos)') =>
     /\ Len(responses') = Len(responses) + 1
     /\ pos \in DOMAIN responses'[Len(responses')]

\* C40: with a fairly scheduled worker and a control side that stops sending
\* (it sends at most MaxRequests requests), every cell that is requested and
\* present in the worker's snapshot eventually appears in a response, the
\* light of a cell included: a requested cell stays requested until the
\* step that sends a response holding it, and from some point on nothing is
\* requested any more, both backlogs are empty and the worker blocks in recv.
C40_WorkerLiveness ==
  /\ \A pos \in CellPositions \cup {AbsentCell} :
       (Requested(pos) /\ pos \in DOMAIN worker.voxels) ~> (\E k \in DOMAIN responses : pos \in DOMAIN responses[k])
  /\ [][\A pos \in CellPositions \cup {AbsentCell} : AnsweredWhenTaken(pos)]_vars
  /\ <>[]WorkerIdle

\* The worker has answered the queue of LightmapsThenVAO, the VAO first and
\* then the three lights one by one, and then a request for the light of the
\* cell that was stored after the start; it blocks in recv.
C40_Witness ==
  /\ WorkerIdle
  /\ Len(responses) = 5
  /\ DOMAIN responses[1] = {ZERO}
  /\ UNION { DOMAIN responses[k] : k \in 2 .. 4 } = CellPositions
  /\ DOMAIN responses[5] = {AbsentCell}

====
